---- MODULE Spec2Model ----
(***************************************************************************)
(* A model of the GGUF decoders of gguf-rs.                                *)
(*                                                                         *)
(* The repository holds three decoders of the same container format:       *)
(*   - GgufHeader::parse, GgufReader::read_metadata and                    *)
(*     TensorLoader::read_tensor_info (src/src/metadata.rs, tensors.rs),   *)
(*     the path the tests and the command line tool use;                   *)
(*   - GGUFHeader::read (src/src/header.rs, tensor.rs, error.rs);          *)
(*   - GgmlFile::open (src/src/lib.rs).                                    *)
(*                                                                         *)
(* Numbers.  TLC's integers are 32 bits wide, so an unsigned 32 or 64 bit  *)
(* number is modelled as the tuple of its 16-bit halves, low half first:   *)
(* a u32 is <<h0, h1>> with value h0 + 65536*h1, a u64 is <<h0,h1,h2,h3>>. *)
(* A u8 or a u16 is an integer.  Strings are the sequences of their UTF-8  *)
(* bytes.  Floats are modelled by their IEEE bit pattern.                  *)
(***************************************************************************)
EXTENDS Integers, Sequences, FiniteSets, TLC

VARIABLES
    src,          \* the bytes of the file behind the reader
    pos,          \* the reader's position
    call,         \* the function that is running or has returned last
    status,       \* "none", "running", "Ok" or "Err" of that function
    err,          \* the error of status "Err"
    header,       \* the decoded header
    kv_index,     \* read_metadata's loop counter
    metadata_map, \* read_metadata's HashMap
    tensor_index, \* read_tensor_info's loop counter
    tensors,      \* read_tensor_info's Vec<TensorInfo>
    allocs,       \* the sizes requested for byte buffers (vec![0u8; len])
    given,        \* what the file was built from (not read by the program)
    build,        \* "debug" (overflow checks on) or "release" (wrapping)
    data_start,   \* the tensor_data_start the caller holds
    arg,          \* the arguments of the call (not read by the program)
    ret,          \* the value the call returned
    open_alignment, \* GgmlFile::open's `alignment`
    config,       \* ModelBuilder's `config`
    model,        \* the Model that ModelBuilder::build returned
    earlier,      \* the results of an earlier decoding of the same bytes
    reserved      \* the capacities requested for collections (with_capacity)

vars == <<src, pos, call, status, err, header, kv_index, metadata_map,
          tensor_index, tensors, allocs, given, build, data_start, arg, ret,
          open_alignment, config, model, earlier, reserved>>

\* ModelBuilder's part of the state
builderVars == <<config, model>>

\* what the decoding calls before the tensor data leave alone
laterVars == <<build, data_start, arg, ret, open_alignment, builderVars, earlier>>

(***************************************************************************)
(* Bounds of the generated files.                                          *)
(***************************************************************************)
MaxKV == 2
MaxTensors == 2

(***************************************************************************)
(* Numbers as 16-bit halves.                                               *)
(***************************************************************************)
Half == 256 * 256

\* the u32 with value n, for 0 <= n < 2^31
W32(n) == <<n % Half, n \div Half>>

\* the u64 with value n, for 0 <= n < 2^31
W64(n) == <<n % Half, n \div Half, 0, 0>>

\* `w as usize` fits an integer of the model
IsSmall(w) == /\ w[2] < 32768
              /\ \A i \in 3..Len(w) : w[i] = 0

ToNat(w) == w[1] + Half * w[2]

\* a < b on numbers of the same width
RECURSIVE WLess(_, _)
WLess(a, b) ==
    IF a = <<>> THEN FALSE
    ELSE LET n == Len(a) IN
         IF a[n] # b[n] THEN a[n] < b[n]
         ELSE WLess(SubSeq(a, 1, n - 1), SubSeq(b, 1, n - 1))

\* i < w for a loop counter i (an integer of the model)
NatLess(i, w) == ~IsSmall(w) \/ i < ToNat(w)

\* u16::to_le_bytes
LeU16(n) == <<n % 256, n \div 256>>

\* the little-endian bytes of a u32 or u64
RECURSIVE LeBytes(_)
LeBytes(w) == IF w = <<>> THEN <<>> ELSE LeU16(w[1]) \o LeBytes(Tail(w))

(***************************************************************************)
(* The reader: std::io::Read::read_exact over the bytes of src.            *)
(***************************************************************************)
Avail(p, n) == p + n <= Len(src)

Take(p, n) == SubSeq(src, p + 1, p + n)

\* u16::from_le_bytes
U16FromLe(b) == b[1] + 256 * b[2]

\* u32::from_le_bytes
U32FromLe(b) == <<U16FromLe(SubSeq(b, 1, 2)), U16FromLe(SubSeq(b, 3, 4))>>

\* u64::from_le_bytes
U64FromLe(b) == <<U16FromLe(SubSeq(b, 1, 2)), U16FromLe(SubSeq(b, 3, 4)),
                  U16FromLe(SubSeq(b, 5, 6)), U16FromLe(SubSeq(b, 7, 8))>>

\* A failed read_exact leaves the reader at the end of the source.
read_u8(p) ==
    IF Avail(p, 1) THEN [ok |-> TRUE, val |-> src[p + 1], pos |-> p + 1]
    ELSE [ok |-> FALSE, val |-> 0, pos |-> Len(src)]

read_u16_le(p) ==
    IF Avail(p, 2) THEN [ok |-> TRUE, val |-> U16FromLe(Take(p, 2)), pos |-> p + 2]
    ELSE [ok |-> FALSE, val |-> 0, pos |-> Len(src)]

read_u32_le(p) ==
    IF Avail(p, 4) THEN [ok |-> TRUE, val |-> U32FromLe(Take(p, 4)), pos |-> p + 4]
    ELSE [ok |-> FALSE, val |-> <<0, 0>>, pos |-> Len(src)]

read_u64_le(p) ==
    IF Avail(p, 8) THEN [ok |-> TRUE, val |-> U64FromLe(Take(p, 8)), pos |-> p + 8]
    ELSE [ok |-> FALSE, val |-> <<0, 0, 0, 0>>, pos |-> Len(src)]

\* reader.read_exact(&mut buf) for a buffer of len bytes, len a u64
read_exact(p, len) ==
    IF IsSmall(len) /\ Avail(p, ToNat(len))
    THEN [ok |-> TRUE, val |-> Take(p, ToNat(len)), pos |-> p + ToNat(len)]
    ELSE [ok |-> FALSE, val |-> <<>>, pos |-> Len(src)]

(***************************************************************************)
(* Errors: the enum variant, the message's fixed text, and the variant and *)
(* text of the error the message quotes (format!("...: {}", e)), if any.   *)
(***************************************************************************)
Error(kind, msg) == [kind |-> kind, msg |-> msg, cause_kind |-> "", cause_msg |-> ""]

Wrap(kind, msg, e) ==
    [kind |-> kind, msg |-> msg, cause_kind |-> e.kind, cause_msg |-> e.msg]

NoError == Error("", "")

\* impl From<io::Error> for GgufError
IoError == Error("GgufError::Io", "")

\* impl From<std::string::FromUtf8Error> for GgufError
Utf8Error == Error("GgufError::InvalidUtf8", "")

(***************************************************************************)
(* String::from_utf8: the bytes are well-formed UTF-8.                     *)
(***************************************************************************)
IsCont(b) == b >= 128 /\ b <= 191

RECURSIVE IsUtf8(_)
IsUtf8(b) ==
    IF b = <<>> THEN TRUE
    ELSE LET c == b[1]
             n == Len(b)
         IN  IF c < 128 THEN IsUtf8(Tail(b))
             ELSE IF c >= 194 /\ c <= 223
                  THEN n >= 2 /\ IsCont(b[2]) /\ IsUtf8(SubSeq(b, 3, n))
             ELSE IF c >= 224 /\ c <= 239
                  THEN /\ n >= 3
                       /\ IsCont(b[2])
                       /\ IsCont(b[3])
                       /\ (c = 224 => b[2] >= 160)
                       /\ (c = 237 => b[2] <= 159)
                       /\ IsUtf8(SubSeq(b, 4, n))
             ELSE IF c >= 240 /\ c <= 244
                  THEN /\ n >= 4
                       /\ IsCont(b[2])
                       /\ IsCont(b[3])
                       /\ IsCont(b[4])
                       /\ (c = 240 => b[2] >= 144)
                       /\ (c = 244 => b[2] <= 143)
                       /\ IsUtf8(SubSeq(b, 5, n))
             ELSE FALSE

(***************************************************************************)
(* Let(x, F) is F(x) with x evaluated once: the `let x = ...;` of the      *)
(* source, whose right-hand side runs once whatever uses x afterwards.     *)
(***************************************************************************)
Let(x, F(_)) == CHOOSE r \in {F(y) : y \in {x}} : TRUE

(***************************************************************************)
(* GgufHeader::parse (metadata.rs).                                        *)
(***************************************************************************)
\* the four bytes taken in the other order: 0x47475546
GGUF_MAGIC_be == <<21830, 18247>>

\* 0x46554747 as a u32: the halves 0x4747 and 0x4655
GGUF_MAGIC == <<18247, 18005>>

NoHeader == [magic |-> <<0, 0>>, version |-> <<0, 0>>,
             n_tensors |-> <<0, 0, 0, 0>>, n_kv |-> <<0, 0, 0, 0>>]

HeaderErr(e, at, al) ==
    [ok |-> FALSE, val |-> NoHeader, pos |-> at, err |-> e, allocs |-> al]

GgufHeader_parse(p) ==
    Let(read_u32_le(p), LAMBDA magic :
    IF ~magic.ok THEN HeaderErr(IoError, magic.pos, {})
    ELSE IF magic.val # GGUF_MAGIC
         THEN HeaderErr(Error("GgufError::InvalidFormat", "Invalid magic number"),
                        magic.pos, {})
    ELSE
    Let(read_u32_le(magic.pos), LAMBDA version :
    IF ~version.ok THEN HeaderErr(IoError, version.pos, {})
    ELSE
    Let(read_u64_le(version.pos), LAMBDA n_tensors :
    IF ~n_tensors.ok THEN HeaderErr(IoError, n_tensors.pos, {})
    ELSE
    Let(read_u64_le(n_tensors.pos), LAMBDA n_kv :
    IF ~n_kv.ok THEN HeaderErr(IoError, n_kv.pos, {})
    ELSE [ok |-> TRUE,
          val |-> [magic |-> magic.val, version |-> version.val,
                   n_tensors |-> n_tensors.val, n_kv |-> n_kv.val],
          pos |-> n_kv.pos,
          err |-> NoError,
          allocs |-> {}]))))

\* GgufHeader::is_version_supported without the lower bound
is_version_supported_from_0(h) ==
    /\ h.version[2] = 0
    /\ h.version[1] <= 3

\* GgufHeader::is_version_supported
is_version_supported(h) ==
    /\ h.version[2] = 0
    /\ h.version[1] >= 1
    /\ h.version[1] <= 3

(***************************************************************************)
(* ValueType and Value (metadata.rs).  A Value is a record: t the variant, *)
(* v its payload, and for an array et the element type.                    *)
(***************************************************************************)
ValueTypes == <<"Uint8", "Int8", "Uint16", "Int16", "Uint32", "Int32", "Float32",
                "Bool", "String", "Array", "Uint64", "Int64", "Float64">>

ValueType_from_u32(value) ==
    IF value[2] = 0 /\ value[1] <= 12
    THEN [some |-> TRUE, val |-> ValueTypes[value[1] + 1]]
    ELSE [some |-> FALSE, val |-> ""]

Scalar(t, v) == [t |-> t, v |-> v]

Array(et, elements) == [t |-> "Array", et |-> et, v |-> elements]

NoValue == Scalar("", 0)

\* the conversion left out: the byte read as unsigned
AsI8_unsigned(x) == x

\* `x as i8`, `x as i16`, `x as i32`, `x as i64`: the same bits, read as signed
AsI8(x) == IF x >= 128 THEN x - 256 ELSE x

AsI16(x) == IF x >= 32768 THEN x - Half ELSE x

AsI32(w) == w[1] + Half * AsI16(w[2])

\* an i64 keeps its three low halves; the top half carries the sign
AsI64(w) == <<w[1], w[2], w[3], AsI16(w[4])>>

(***************************************************************************)
(* GgufReader::read_value (metadata.rs).  The result carries the value,    *)
(* the position after it, and the buffer sizes requested on the way.       *)
(***************************************************************************)
ValueOk(v, p, al) == [ok |-> TRUE, val |-> v, pos |-> p, err |-> NoError, allocs |-> al]

ValueErr(e, p, al) == [ok |-> FALSE, val |-> NoValue, pos |-> p, err |-> e, allocs |-> al]

\* the n read_u8 calls feeding f32::from_le_bytes / f64::from_le_bytes
read_bytes(p, n) ==
    IF Avail(p, n) THEN [ok |-> TRUE, val |-> Take(p, n), pos |-> p + n]
    ELSE [ok |-> FALSE, val |-> <<>>, pos |-> Len(src)]

RECURSIVE read_value(_, _), read_elements(_, _, _, _, _, _)
read_value(p, value_type) ==
    CASE value_type = "Uint8"   ->
            Let(read_u8(p), LAMBDA r :
            IF ~r.ok THEN ValueErr(IoError, r.pos, {})
            ELSE ValueOk(Scalar("Uint8", r.val), r.pos, {}))
      [] value_type = "Int8"    ->
            Let(read_u8(p), LAMBDA r :
            IF ~r.ok THEN ValueErr(IoError, r.pos, {})
            ELSE ValueOk(Scalar("Int8", AsI8(r.val)), r.pos, {}))
      [] value_type = "Uint16"  ->
            Let(read_u16_le(p), LAMBDA r :
            IF ~r.ok THEN ValueErr(IoError, r.pos, {})
            ELSE ValueOk(Scalar("Uint16", r.val), r.pos, {}))
      [] value_type = "Int16"   ->
            Let(read_u16_le(p), LAMBDA r :
            IF ~r.ok THEN ValueErr(IoError, r.pos, {})
            ELSE ValueOk(Scalar("Int16", AsI16(r.val)), r.pos, {}))
      [] value_type = "Uint32"  ->
            Let(read_u32_le(p), LAMBDA r :
            IF ~r.ok THEN ValueErr(IoError, r.pos, {})
            ELSE ValueOk(Scalar("Uint32", r.val), r.pos, {}))
      [] value_type = "Int32"   ->
            Let(read_u32_le(p), LAMBDA r :
            IF ~r.ok THEN ValueErr(IoError, r.pos, {})
            ELSE ValueOk(Scalar("Int32", AsI32(r.val)), r.pos, {}))
      [] value_type = "Float32" ->
            Let(read_bytes(p, 4), LAMBDA r :
            IF ~r.ok THEN ValueErr(IoError, r.pos, {})
            ELSE ValueOk(Scalar("Float32", U32FromLe(r.val)), r.pos, {}))
      [] value_type = "Bool"    ->
            Let(read_u8(p), LAMBDA r :
            IF ~r.ok THEN ValueErr(IoError, r.pos, {})
            ELSE ValueOk(Scalar("Bool", r.val # 0), r.pos, {}))
      [] value_type = "String"  ->
            Let(read_u64_le(p), LAMBDA len :
            IF ~len.ok THEN ValueErr(IoError, len.pos, {})
            ELSE
            Let(read_exact(len.pos, len.val), LAMBDA string_bytes :
            IF ~string_bytes.ok THEN ValueErr(IoError, string_bytes.pos, {len.val})
            ELSE IF ~IsUtf8(string_bytes.val)
                 THEN ValueErr(Utf8Error, string_bytes.pos, {len.val})
            ELSE ValueOk(Scalar("String", string_bytes.val), string_bytes.pos,
                         {len.val})))
      [] value_type = "Array"   ->
            Let(read_u32_le(p), LAMBDA element_type_id :
            IF ~element_type_id.ok THEN ValueErr(IoError, element_type_id.pos, {})
            ELSE
            Let(ValueType_from_u32(element_type_id.val), LAMBDA element_type :
            IF ~element_type.some
            THEN ValueErr(Error("GgufError::Unsupported", "Unknown array element type ID"),
                          element_type_id.pos, {})
            ELSE
            Let(read_u64_le(element_type_id.pos), LAMBDA count :
            IF ~count.ok THEN ValueErr(IoError, count.pos, {})
            ELSE read_elements(count.pos, element_type.val, 0, count.val, <<>>, {}))))
      [] value_type = "Uint64"  ->
            Let(read_u64_le(p), LAMBDA r :
            IF ~r.ok THEN ValueErr(IoError, r.pos, {})
            ELSE ValueOk(Scalar("Uint64", r.val), r.pos, {}))
      [] value_type = "Int64"   ->
            Let(read_u64_le(p), LAMBDA r :
            IF ~r.ok THEN ValueErr(IoError, r.pos, {})
            ELSE ValueOk(Scalar("Int64", AsI64(r.val)), r.pos, {}))
      [] value_type = "Float64" ->
            Let(read_bytes(p, 8), LAMBDA r :
            IF ~r.ok THEN ValueErr(IoError, r.pos, {})
            ELSE ValueOk(Scalar("Float64", U64FromLe(r.val)), r.pos, {}))

\* `for _ in 0..count { elements.push(Self::read_value(reader, element_type)?) }`
read_elements(p, element_type, i, count, elements, al) ==
    IF ~NatLess(i, count) THEN ValueOk(Array(element_type, elements), p, al)
    ELSE Let(read_value(p, element_type), LAMBDA e :
         IF ~e.ok THEN ValueErr(e.err, e.pos, al \cup e.allocs)
         ELSE read_elements(e.pos, element_type, i + 1, count,
                            Append(elements, e.val), al \cup e.allocs))

(***************************************************************************)
(* HashMap<String, Value>: a function from keys to values.                 *)
(***************************************************************************)
EmptyMap == [k \in {} |-> NoValue]

\* HashMap::entry(key).or_insert(value): the first value of a key stays
Insert_keep_first(m, key, value) ==
    [k \in DOMAIN m \cup {key} |-> IF k \in DOMAIN m THEN m[k] ELSE value]

\* HashMap::insert
Insert(m, key, value) ==
    [k \in DOMAIN m \cup {key} |-> IF k = key THEN value ELSE m[k]]

(***************************************************************************)
(* One iteration of GgufReader::read_metadata's loop (metadata.rs).        *)
(***************************************************************************)
EntryErr(m, e, at, al) == [ok |-> FALSE, map |-> m, pos |-> at, err |-> e, allocs |-> al]

read_metadata_entry(p, m) ==
    Let(read_u64_le(p), LAMBDA key_len :
    IF ~key_len.ok
    THEN EntryErr(m, Wrap("GgufError::InvalidFormat", "Error reading key length", IoError),
                  key_len.pos, {})
    ELSE
    Let(read_exact(key_len.pos, key_len.val), LAMBDA key_bytes :
    IF ~key_bytes.ok THEN EntryErr(m, IoError, key_bytes.pos, {key_len.val})
    ELSE IF ~IsUtf8(key_bytes.val)
         THEN EntryErr(m, Utf8Error, key_bytes.pos, {key_len.val})
    ELSE
    Let(read_u32_le(key_bytes.pos), LAMBDA value_type_id :
    IF ~value_type_id.ok
    THEN EntryErr(m, Wrap("GgufError::InvalidFormat", "Error reading value type", IoError),
                  value_type_id.pos, {key_len.val})
    ELSE
    Let(ValueType_from_u32(value_type_id.val), LAMBDA value_type :
    IF ~value_type.some
    THEN EntryErr(m, Error("GgufError::Unsupported", "Unknown GGUF value type ID"),
                  value_type_id.pos, {key_len.val})
    ELSE
    Let(read_value(value_type_id.pos, value_type.val), LAMBDA value :
    IF ~value.ok
    THEN EntryErr(m, Wrap("GgufError::InvalidFormat", "Error reading value for key",
                          value.err),
                  value.pos, {key_len.val} \cup value.allocs)
    ELSE [ok |-> TRUE,
          map |-> Insert(m, key_bytes.val, value.val),
          pos |-> value.pos,
          err |-> NoError,
          allocs |-> {key_len.val} \cup value.allocs])))))

(***************************************************************************)
(* The collections the decoders reserve room for.  A request for 2^63      *)
(* elements or bytes or more panics (capacity overflow).  A request that   *)
(* is smaller but beyond the integers of the model may succeed, may find   *)
(* the allocator failing (the process aborts) and, for a collection whose  *)
(* elements are wider than a byte, may panic as well, with the element     *)
(* width and the allocator of the build.                                   *)
(***************************************************************************)
\* a u32 count as a u64
Widen(n) == IF Len(n) = 2 THEN <<n[1], n[2], 0, 0>> ELSE n

\* n > isize::MAX
Overflows(n) == n[4] >= 32768

\* the ways a step that the decoder's code ends with status st can end, having
\* requested buffers of `sizes` bytes and collections of `capacities` elements
alloc_outcomes(st, sizes, capacities) ==
    (IF \E n \in sizes \cup capacities : Overflows(n) THEN {"Panic"} ELSE {st})
    \cup (IF \E n \in sizes \cup capacities : ~IsSmall(n) /\ ~Overflows(n)
          THEN {"Abort"} ELSE {})
    \cup (IF \E n \in capacities : ~IsSmall(n) /\ ~Overflows(n)
          THEN {"Panic"} ELSE {})

\* the counts read_value passes to Vec::with_capacity(count as usize)
RECURSIVE capacities(_, _), element_capacities(_, _, _, _)
capacities(p, value_type) ==
    IF value_type # "Array" THEN {}
    ELSE
    Let(read_u32_le(p), LAMBDA element_type_id :
    IF ~element_type_id.ok THEN {}
    ELSE
    Let(ValueType_from_u32(element_type_id.val), LAMBDA element_type :
    IF ~element_type.some THEN {}
    ELSE
    Let(read_u64_le(element_type_id.pos), LAMBDA count :
    IF ~count.ok THEN {}
    ELSE {count.val}
         \cup element_capacities(count.pos, element_type.val, 0, count.val))))

\* those of the elements, which are arrays themselves
element_capacities(p, element_type, i, count) ==
    IF element_type # "Array" \/ ~NatLess(i, count) THEN {}
    ELSE capacities(p, element_type)
         \cup Let(read_value(p, element_type), LAMBDA e :
                  IF ~e.ok THEN {}
                  ELSE element_capacities(e.pos, element_type, i + 1, count))

\* those of one iteration of read_metadata's loop
entry_capacities(p) ==
    Let(read_u64_le(p), LAMBDA key_len :
    IF ~key_len.ok THEN {}
    ELSE
    Let(read_exact(key_len.pos, key_len.val), LAMBDA key_bytes :
    IF ~key_bytes.ok \/ ~IsUtf8(key_bytes.val) THEN {}
    ELSE
    Let(read_u32_le(key_bytes.pos), LAMBDA value_type_id :
    IF ~value_type_id.ok THEN {}
    ELSE
    Let(ValueType_from_u32(value_type_id.val), LAMBDA value_type :
    IF ~value_type.some THEN {}
    ELSE capacities(value_type_id.pos, value_type.val)))))

(***************************************************************************)
(* TensorType (metadata.rs) and TensorInfo (tensors.rs).                   *)
(***************************************************************************)
\* the variant of each type id, from 0; ids 4 and 5 have none
TensorTypes == <<"F32", "F16", "Q40", "Q41", "", "", "Q50", "Q51", "Q80", "Q81",
                 "Q2K", "Q3K", "Q4K", "Q5K", "Q6K", "Q8K", "Iq2Xxs", "Iq2Xs",
                 "Iq3Xxs", "Iq1S", "Iq4Nl", "Iq3S", "Iq2S", "Iq4Xs", "I8", "I16",
                 "I32", "I64", "F64", "Iq1M">>

\* `0..=29 =>` with no gap: ids 4 and 5 taken for variants too
TensorType_from_u32_dense(value) ==
    IF value[2] = 0 /\ value[1] <= 29
    THEN [some |-> TRUE, val |-> TensorTypes[value[1] + 1]]
    ELSE [some |-> FALSE, val |-> ""]

TensorType_from_u32(value) ==
    IF value[2] = 0 /\ value[1] <= 29 /\ value[1] \notin {4, 5}
    THEN [some |-> TRUE, val |-> TensorTypes[value[1] + 1]]
    ELSE [some |-> FALSE, val |-> ""]

TensorInfo(name, n_dims, dims, tensor_type, offset) ==
    [name |-> name, n_dims |-> n_dims, dims |-> dims,
     tensor_type |-> tensor_type, offset |-> offset]

\* Vec::insert(0, info): the newest descriptor first
push_front(list, info) == <<info>> \o list

\* Vec::push
push(list, info) == Append(list, info)

\* `for dim_index in 0..n_dims { dims.push(read_u64_le(reader)...?) }`
RECURSIVE read_dims(_, _, _, _)
read_dims(p, dim_index, n_dims, dims) ==
    IF ~NatLess(dim_index, n_dims) THEN [ok |-> TRUE, val |-> dims, pos |-> p]
    ELSE Let(read_u64_le(p), LAMBDA dim :
         IF ~dim.ok THEN [ok |-> FALSE, val |-> dims, pos |-> dim.pos]
         ELSE read_dims(dim.pos, dim_index + 1, n_dims, Append(dims, dim.val)))

(***************************************************************************)
(* One iteration of TensorLoader::read_tensor_info's loop (tensors.rs).    *)
(***************************************************************************)
InfoErr(list, e, at, al) ==
    [ok |-> FALSE, list |-> list, pos |-> at, err |-> e, allocs |-> al]

read_tensor_info_entry(p, list) ==
    Let(read_u64_le(p), LAMBDA name_len :
    IF ~name_len.ok
    THEN InfoErr(list, Wrap("GgufError::InvalidFormat", "Error reading tensor name length",
                            IoError),
                 name_len.pos, {})
    ELSE
    Let(read_exact(name_len.pos, name_len.val), LAMBDA name_bytes :
    IF ~name_bytes.ok THEN InfoErr(list, IoError, name_bytes.pos, {name_len.val})
    ELSE IF ~IsUtf8(name_bytes.val)
         THEN InfoErr(list, Utf8Error, name_bytes.pos, {name_len.val})
    ELSE
    Let(read_u32_le(name_bytes.pos), LAMBDA n_dims :
    IF ~n_dims.ok
    THEN InfoErr(list, Wrap("GgufError::InvalidFormat", "Error reading n_dims", IoError),
                 n_dims.pos, {name_len.val})
    ELSE
    Let(read_dims(n_dims.pos, 0, n_dims.val, <<>>), LAMBDA dims :
    IF ~dims.ok
    THEN InfoErr(list, Wrap("GgufError::InvalidFormat", "Error reading dimension", IoError),
                 dims.pos, {name_len.val})
    ELSE
    Let(read_u32_le(dims.pos), LAMBDA tensor_type_id :
    IF ~tensor_type_id.ok
    THEN InfoErr(list, Wrap("GgufError::InvalidFormat", "Error reading tensor type",
                            IoError),
                 tensor_type_id.pos, {name_len.val})
    ELSE
    Let(TensorType_from_u32(tensor_type_id.val), LAMBDA tensor_type :
    IF ~tensor_type.some
    THEN InfoErr(list, Error("GgufError::Unsupported", "Unknown tensor type ID"),
                 tensor_type_id.pos, {name_len.val})
    ELSE
    Let(read_u64_le(tensor_type_id.pos), LAMBDA offset :
    IF ~offset.ok
    THEN InfoErr(list, Wrap("GgufError::InvalidFormat", "Error reading offset", IoError),
                 offset.pos, {name_len.val})
    ELSE [ok |-> TRUE,
          list |-> push(list, TensorInfo(name_bytes.val, n_dims.val, dims.val,
                                         tensor_type.val, offset.val)),
          pos |-> offset.pos,
          err |-> NoError,
          allocs |-> {name_len.val}])))))))

\* `Vec::with_capacity(n_dims as usize)` of one iteration of read_tensor_info
info_capacities(p) ==
    Let(read_u64_le(p), LAMBDA name_len :
    IF ~name_len.ok THEN {}
    ELSE
    Let(read_exact(name_len.pos, name_len.val), LAMBDA name_bytes :
    IF ~name_bytes.ok \/ ~IsUtf8(name_bytes.val) THEN {}
    ELSE
    Let(read_u32_le(name_bytes.pos), LAMBDA n_dims :
    IF ~n_dims.ok THEN {} ELSE {Widen(n_dims.val)})))

\* 2^64 - 1
MaxU64 == <<65535, 65535, 65535, 65535>>

(***************************************************************************)
(* u64 arithmetic.  `*` and `+` on u64 panic on overflow where overflow    *)
(* checks are compiled in (debug) and wrap where they are not (release):   *)
(* the operators give the wrapped value and whether the operation          *)
(* overflowed.  Products are computed on bytes, low byte first.            *)
(***************************************************************************)
RECURSIVE Column(_, _, _, _)
Column(a, b, k, i) ==
    IF i > Len(a) THEN 0
    ELSE (IF (k + 1 - i) \in DOMAIN b THEN a[i] * b[k + 1 - i] ELSE 0)
         + Column(a, b, k, i + 1)

RECURSIVE MulFrom(_, _, _, _)
MulFrom(a, b, k, carry) ==
    IF k > Len(a) + Len(b) THEN <<>>
    ELSE Let(carry + Column(a, b, k, 1), LAMBDA s :
             <<s % 256>> \o MulFrom(a, b, k + 1, s \div 256))

\* the whole product of two numbers given as bytes
WideMul(a, b) == MulFrom(a, b, 1, 0)

Arith(val, overflow) == [val |-> val, overflow |-> overflow]

\* u64 * u64; factors below 2^15 are multiplied as they are
Mul64(a, b) ==
    IF a[1] < 32768 /\ b[1] < 32768 /\ \A i \in 2..4 : a[i] = 0 /\ b[i] = 0
    THEN Arith(W64(a[1] * b[1]), FALSE)
    ELSE
    Let(LeBytes(a), LAMBDA x :
    Let(LeBytes(b), LAMBDA y :
    Let(WideMul(x, y), LAMBDA p :
        Arith(U64FromLe(SubSeq(p, 1, 8)), \E i \in 9..16 : p[i] # 0))))

RECURSIVE AddFrom(_, _, _, _)
AddFrom(a, b, k, carry) ==
    IF k > Len(a) THEN <<carry>>
    ELSE Let(a[k] + b[k] + carry, LAMBDA s :
             <<s % Half>> \o AddFrom(a, b, k + 1, s \div Half))

\* u64 + u64
Add64(a, b) ==
    Let(AddFrom(a, b, 1, 0), LAMBDA s : Arith(SubSeq(s, 1, 4), s[5] # 0))

(***************************************************************************)
(* TensorInfo's methods (tensors.rs).                                      *)
(***************************************************************************)
\* Iterator::product over u64: 1, then `*` with each dimension in turn
RECURSIVE product(_, _)
product(dims, acc) ==
    IF dims = <<>> THEN acc
    ELSE Let(Mul64(acc.val, dims[1]), LAMBDA m :
             product(Tail(dims), Arith(m.val, acc.overflow \/ m.overflow)))

element_count(t) == product(t.dims, Arith(W64(1), FALSE))

\* byte_size's `match self.tensor_type`; 0 stands for the `_ => return 0` arm
element_size(tensor_type) ==
    CASE tensor_type = "F32" -> 4
      [] tensor_type = "F16" -> 2
      [] tensor_type = "I32" -> 4
      [] tensor_type = "I16" -> 2
      [] tensor_type = "I8" -> 1
      [] tensor_type = "F64" -> 8
      [] tensor_type = "I64" -> 8
      [] OTHER -> 0

byte_size(t) ==
    Let(element_count(t), LAMBDA count :
        IF element_size(t.tensor_type) = 0 THEN Arith(W64(0), count.overflow)
        ELSE Let(Mul64(count.val, W64(element_size(t.tensor_type))), LAMBDA m :
                 Arith(m.val, count.overflow \/ m.overflow)))

\* matches!(self.tensor_type, F32 | F16 | I32 | I16 | I8 | F64 | I64)
is_supported(t) == t.tensor_type \in {"F32", "F16", "I32", "I16", "I8", "F64", "I64"}

\* no start of the tensor data, no arguments, no returned value yet
NoStart == <<>>

NoArg == [i |-> 0, from |-> 0]

NoRet == <<>>

NoConfig == <<>>

NoModel == <<>>

NoEarlier == <<>>

(***************************************************************************)
(* TensorLoader::load_tensor and load_all_tensors (tensors.rs).  A call    *)
(* ends "Ok" or "Err", or does not return: "Panic" (arithmetic overflow    *)
(* under overflow checks, capacity overflow) or "Abort" (the allocator     *)
(* fails).  An operator gives the set of the outcomes a call can have.     *)
(***************************************************************************)
Tensor(info, data) == [info |-> info, data |-> data]

Outcome(st, e, at, al, val) ==
    [status |-> st, err |-> e, pos |-> at, allocs |-> al, val |-> val]

\* `reader.seek(SeekFrom::Start(absolute_offset))?`, `vec![0u8; byte_size as usize]`
\* and `reader.read_exact(&mut data)?`
seek_and_read(absolute_offset, size, t) ==
    IF size[4] >= 32768
    THEN {Outcome("Panic", NoError, Len(src), {size}, NoRet)}
    ELSE IF ~IsSmall(size)
    THEN {Outcome("Abort", NoError, Len(src), {size}, NoRet),
          Outcome("Err", IoError, Len(src), {size}, NoRet)}
    ELSE IF /\ IsSmall(absolute_offset)
            /\ ToNat(absolute_offset) <= Len(src)
            /\ ToNat(size) <= Len(src) - ToNat(absolute_offset)
    THEN {Outcome("Ok", NoError, ToNat(absolute_offset) + ToNat(size), {size},
                  Tensor(t, Take(ToNat(absolute_offset), ToNat(size))))}
    ELSE {Outcome("Err", IoError, Len(src), {size}, NoRet)}

load_tensor(p, tensor_info, tensor_data_start) ==
    IF ~is_supported(tensor_info)
    THEN {Outcome("Err", Error("GgufError::Unsupported",
                               "Tensor type {:?} is not supported for loading"),
                  p, {}, NoRet)}
    ELSE
    Let(byte_size(tensor_info), LAMBDA size :
    IF size.overflow /\ build = "debug"
    THEN {Outcome("Panic", NoError, p, {}, NoRet)}
    ELSE IF size.val = W64(0)
    THEN {Outcome("Err", Error("GgufError::Unsupported",
                               "Cannot determine byte size for tensor type {:?}"),
                  p, {}, NoRet)}
    ELSE
    Let(Add64(tensor_data_start, tensor_info.offset), LAMBDA absolute_offset :
    IF absolute_offset.overflow /\ build = "debug"
    THEN {Outcome("Panic", NoError, p, {}, NoRet)}
    ELSE seek_and_read(absolute_offset.val, size.val, tensor_info)))

\* the `for tensor_info in tensor_infos` loop, from the descriptor infos[1] on
RECURSIVE load_all_tensors(_, _, _, _, _)
load_all_tensors(p, infos, tensor_data_start, map, al) ==
    IF infos = <<>> THEN {Outcome("Ok", NoError, p, al, map)}
    ELSE IF ~is_supported(infos[1])
    THEN load_all_tensors(p, Tail(infos), tensor_data_start, map, al)
    ELSE UNION {
        IF r.status \in {"Panic", "Abort"}
        THEN {Outcome(r.status, NoError, r.pos, al \cup r.allocs, NoRet)}
        ELSE load_all_tensors(r.pos, Tail(infos), tensor_data_start,
                              IF r.status = "Ok" THEN Insert(map, infos[1].name, r.val)
                              ELSE map,
                              al \cup r.allocs)
        : r \in load_tensor(p, infos[1], tensor_data_start)}

(***************************************************************************)
(* GGUFHeader::read (header.rs) with read_gguf_string (tensor.rs).  The    *)
(* types Metadata, MetadataValue and MetadataValueType it uses are not     *)
(* among the sources; they are taken to be a key/value map, the tagged     *)
(* value and the 13 type ids of the format.                                *)
(***************************************************************************)
GGUFIoError == Error("GGUFError::Io", "")

\* 1024 * 1024 as a u64
MaxStringLen == <<0, 16, 0, 0>>

StringErr(e, at, al) == [ok |-> FALSE, val |-> <<>>, pos |-> at, err |-> e, allocs |-> al]

read_gguf_string(p) ==
    Let(read_u64_le(p), LAMBDA len :
    IF ~len.ok THEN StringErr(GGUFIoError, len.pos, {})
    ELSE IF WLess(MaxStringLen, len.val)
         THEN StringErr(Error("GGUFError::Metadata", "String too long"), len.pos, {})
    ELSE
    Let(read_exact(len.pos, len.val), LAMBDA buf :
    IF ~buf.ok THEN StringErr(GGUFIoError, buf.pos, {len.val})
    ELSE IF ~IsUtf8(buf.val)
         THEN StringErr(Error("GGUFError::InvalidString", ""), buf.pos, {len.val})
    ELSE [ok |-> TRUE, val |-> buf.val, pos |-> buf.pos, err |-> NoError,
          allocs |-> {len.val}]))

MetadataValueTypes == <<"UInt8", "Int8", "UInt16", "Int16", "UInt32", "Int32", "Float32",
                        "Bool", "String", "Array", "UInt64", "Int64", "Float64">>

MetadataValueType_try_from(value) ==
    IF value[2] = 0 /\ value[1] <= 12
    THEN [ok |-> TRUE, val |-> MetadataValueTypes[value[1] + 1]]
    ELSE [ok |-> FALSE, val |-> ""]

read_typed_value(p, value_type) ==
    CASE value_type = "UInt8"   ->
            Let(read_u8(p), LAMBDA r :
            IF ~r.ok THEN ValueErr(GGUFIoError, r.pos, {})
            ELSE ValueOk(Scalar("UInt8", r.val), r.pos, {}))
      [] value_type = "Int8"    ->
            Let(read_u8(p), LAMBDA r :
            IF ~r.ok THEN ValueErr(GGUFIoError, r.pos, {})
            ELSE ValueOk(Scalar("Int8", AsI8(r.val)), r.pos, {}))
      [] value_type = "UInt16"  ->
            Let(read_u16_le(p), LAMBDA r :
            IF ~r.ok THEN ValueErr(GGUFIoError, r.pos, {})
            ELSE ValueOk(Scalar("UInt16", r.val), r.pos, {}))
      [] value_type = "Int16"   ->
            Let(read_u16_le(p), LAMBDA r :
            IF ~r.ok THEN ValueErr(GGUFIoError, r.pos, {})
            ELSE ValueOk(Scalar("Int16", AsI16(r.val)), r.pos, {}))
      [] value_type = "UInt32"  ->
            Let(read_u32_le(p), LAMBDA r :
            IF ~r.ok THEN ValueErr(GGUFIoError, r.pos, {})
            ELSE ValueOk(Scalar("UInt32", r.val), r.pos, {}))
      [] value_type = "Int32"   ->
            Let(read_u32_le(p), LAMBDA r :
            IF ~r.ok THEN ValueErr(GGUFIoError, r.pos, {})
            ELSE ValueOk(Scalar("Int32", AsI32(r.val)), r.pos, {}))
      [] value_type = "Float32" ->
            Let(read_u32_le(p), LAMBDA r :
            IF ~r.ok THEN ValueErr(GGUFIoError, r.pos, {})
            ELSE ValueOk(Scalar("Float32", r.val), r.pos, {}))
      [] value_type = "Bool"    ->
            Let(read_u8(p), LAMBDA r :
            IF ~r.ok THEN ValueErr(GGUFIoError, r.pos, {})
            ELSE ValueOk(Scalar("Bool", r.val # 0), r.pos, {}))
      [] value_type = "String"  ->
            Let(read_gguf_string(p), LAMBDA s :
            IF ~s.ok THEN ValueErr(s.err, s.pos, s.allocs)
            ELSE ValueOk(Scalar("String", s.val), s.pos, s.allocs))
      [] value_type = "UInt64"  ->
            Let(read_u64_le(p), LAMBDA r :
            IF ~r.ok THEN ValueErr(GGUFIoError, r.pos, {})
            ELSE ValueOk(Scalar("UInt64", r.val), r.pos, {}))
      [] value_type = "Int64"   ->
            Let(read_u64_le(p), LAMBDA r :
            IF ~r.ok THEN ValueErr(GGUFIoError, r.pos, {})
            ELSE ValueOk(Scalar("Int64", AsI64(r.val)), r.pos, {}))
      [] value_type = "Float64" ->
            Let(read_u64_le(p), LAMBDA r :
            IF ~r.ok THEN ValueErr(GGUFIoError, r.pos, {})
            ELSE ValueOk(Scalar("Float64", r.val), r.pos, {}))
      [] value_type = "Array"   ->
            ValueErr(Error("GGUFError::Metadata", "Nested arrays not supported"), p, {})

\* `for _ in 0..len { items.push(read_typed_value(reader, &array_type)?) }`
RECURSIVE read_items(_, _, _, _, _, _)
read_items(p, array_type, i, len, items, al) ==
    IF ~NatLess(i, len) THEN ValueOk(Scalar("Array", items), p, al)
    ELSE Let(read_typed_value(p, array_type), LAMBDA e :
         IF ~e.ok THEN ValueErr(e.err, e.pos, al \cup e.allocs)
         ELSE read_items(e.pos, array_type, i + 1, len, Append(items, e.val),
                         al \cup e.allocs))

\* the Array arm of read_metadata_kv
read_array(p) ==
    Let(read_u32_le(p), LAMBDA array_type_val :
    IF ~array_type_val.ok THEN ValueErr(GGUFIoError, array_type_val.pos, {})
    ELSE
    Let(MetadataValueType_try_from(array_type_val.val), LAMBDA array_type :
    IF ~array_type.ok
    THEN ValueErr(Error("GGUFError::InvalidValueType", ""), array_type_val.pos, {})
    ELSE
    Let(read_u64_le(array_type_val.pos), LAMBDA len :
    IF ~len.ok THEN ValueErr(GGUFIoError, len.pos, {})
    ELSE read_items(len.pos, array_type.val, 0, len.val, <<>>, {}))))

KvErr(e, at, al) ==
    [ok |-> FALSE, key |-> <<>>, val |-> NoValue, pos |-> at, err |-> e, allocs |-> al]

\* the scalar arms of read_metadata_kv are those of read_typed_value
read_metadata_kv(p) ==
    Let(read_gguf_string(p), LAMBDA key :
    IF ~key.ok THEN KvErr(key.err, key.pos, key.allocs)
    ELSE
    Let(read_u32_le(key.pos), LAMBDA type_id :
    IF ~type_id.ok THEN KvErr(GGUFIoError, type_id.pos, key.allocs)
    ELSE
    Let(MetadataValueType_try_from(type_id.val), LAMBDA value_type :
    IF ~value_type.ok
    THEN KvErr(Error("GGUFError::InvalidValueType", ""), type_id.pos, key.allocs)
    ELSE
    Let(IF value_type.val = "Array" THEN read_array(type_id.pos)
        ELSE read_typed_value(type_id.pos, value_type.val), LAMBDA value :
    IF ~value.ok THEN KvErr(value.err, value.pos, key.allocs \cup value.allocs)
    ELSE [ok |-> TRUE, key |-> key.val, val |-> value.val, pos |-> value.pos,
          err |-> NoError, allocs |-> key.allocs \cup value.allocs]))))

\* Metadata::insert
Metadata_insert(metadata, key, value) ==
    [k \in DOMAIN metadata \cup {key} |-> IF k = key THEN value ELSE metadata[k]]

\* `for _ in 0..metadata_kv_count { metadata.insert(read_metadata_kv(reader)?) }`
RECURSIVE read_all_kv(_, _, _, _, _)
read_all_kv(p, i, metadata_kv_count, metadata, al) ==
    IF ~NatLess(i, metadata_kv_count)
    THEN [ok |-> TRUE, val |-> metadata, pos |-> p, err |-> NoError, allocs |-> al]
    ELSE Let(read_metadata_kv(p), LAMBDA kv :
         IF ~kv.ok
         THEN [ok |-> FALSE, val |-> metadata, pos |-> kv.pos, err |-> kv.err,
               allocs |-> al \cup kv.allocs]
         ELSE read_all_kv(kv.pos, i + 1, metadata_kv_count,
                          Metadata_insert(metadata, kv.key, kv.val),
                          al \cup kv.allocs))

\* "general.alignment"
AlignmentKey == <<103, 101, 110, 101, 114, 97, 108, 46,
                  97, 108, 105, 103, 110, 109, 101, 110, 116>>

\* metadata.get("general.alignment").and_then(|v| v.as_uint32()).unwrap_or(32)
DeclaredAlignment(metadata) ==
    IF AlignmentKey \in DOMAIN metadata /\ metadata[AlignmentKey].t = "UInt32"
    THEN metadata[AlignmentKey].v
    ELSE W32(32)

GGUFHeader_read(p) ==
    Let(read_bytes(p, 4), LAMBDA magic :
    IF ~magic.ok THEN HeaderErr(GGUFIoError, magic.pos, {})
    ELSE IF magic.val # <<71, 71, 85, 70>>
         THEN HeaderErr(Error("GGUFError::InvalidMagic", ""), magic.pos, {})
    ELSE
    Let(read_u32_le(magic.pos), LAMBDA version :
    IF ~version.ok THEN HeaderErr(GGUFIoError, version.pos, {})
    ELSE IF version.val # W32(3)
         THEN HeaderErr(Error("GGUFError::UnsupportedVersion", ""), version.pos, {})
    ELSE
    Let(read_u64_le(version.pos), LAMBDA tensor_count :
    IF ~tensor_count.ok THEN HeaderErr(GGUFIoError, tensor_count.pos, {})
    ELSE
    Let(read_u64_le(tensor_count.pos), LAMBDA metadata_kv_count :
    IF ~metadata_kv_count.ok THEN HeaderErr(GGUFIoError, metadata_kv_count.pos, {})
    ELSE
    Let(read_all_kv(metadata_kv_count.pos, 0, metadata_kv_count.val, EmptyMap, {}),
        LAMBDA metadata :
    IF ~metadata.ok THEN HeaderErr(metadata.err, metadata.pos, metadata.allocs)
    ELSE
    Let(DeclaredAlignment(metadata.val), LAMBDA alignment :
    IF alignment[2] = 0 /\ alignment[1] < 8
    THEN HeaderErr(Error("GGUFError::InvalidAlignment", ""), metadata.pos,
                   metadata.allocs)
    ELSE [ok |-> TRUE,
          val |-> [version |-> version.val, tensor_count |-> tensor_count.val,
                   metadata |-> metadata.val, alignment |-> alignment],
          pos |-> metadata.pos,
          err |-> NoError,
          allocs |-> metadata.allocs]))))))

(***************************************************************************)
(* GgmlFile::open (lib.rs), up to the metadata count: the magic and        *)
(* version checks, the dump of the first bytes, and the count.             *)
(***************************************************************************)
GgmlIoError == Error("GgmlError::Io", "")

GGUF_VERSION_V2 == W32(2)

GGUF_VERSION_V3 == W32(3)

GgmlFile_open_header(p) ==
    Let(read_u32_le(p), LAMBDA magic :
    IF ~magic.ok THEN HeaderErr(GgmlIoError, magic.pos, {})
    ELSE IF magic.val # GGUF_MAGIC
         THEN HeaderErr(Error("GgmlError::InvalidMagic", ""), magic.pos, {})
    ELSE
    Let(read_u32_le(magic.pos), LAMBDA version :
    IF ~version.ok THEN HeaderErr(GgmlIoError, version.pos, {})
    ELSE IF version.val # GGUF_VERSION_V2 /\ version.val # GGUF_VERSION_V3
         THEN HeaderErr(Error("GgmlError::UnsupportedVersion", ""), version.pos, {})
    ELSE
    \* seek(0), read 128.min(mmap.len()) bytes, seek back to current_pos
    Let(read_u64_le(version.pos), LAMBDA metadata_count :
    IF ~metadata_count.ok THEN HeaderErr(GgmlIoError, metadata_count.pos, {})
    ELSE [ok |-> TRUE,
          val |-> [magic |-> magic.val, version |-> version.val,
                   metadata_count |-> metadata_count.val],
          pos |-> metadata_count.pos,
          err |-> NoError,
          allocs |-> {}])))

(***************************************************************************)
(* GgmlFile::open after the metadata count (lib.rs): the metadata loop     *)
(* keeps nothing but the alignment and skips arrays by seeking; the tensor *)
(* loop computes each tensor's size rounded up to the alignment.  A cursor *)
(* position after the end of the file is kept as Len(src) + 1: every seek  *)
(* of open is followed by a read, and the read fails there.                *)
(***************************************************************************)
OpenOut(st, e, at, alignment, al) ==
    [status |-> st, err |-> e, pos |-> at, alignment |-> alignment, allocs |-> al]

\* -n on u64: the magnitude of `n as i64` when it is negative
Neg64(n) == Add64([i \in 1..4 |-> 65535 - n[i]], W64(1)).val

\* Cursor::seek(SeekFrom::Current(n as i64))
seek_current(p, n) ==
    IF n[4] < 32768
    THEN [ok |-> TRUE,
          pos |-> IF IsSmall(n) /\ p <= Len(src) /\ ToNat(n) <= Len(src) - p
                  THEN p + ToNat(n) ELSE Len(src) + 1]
    ELSE Let(Neg64(n), LAMBDA back :
         IF IsSmall(back) /\ ToNat(back) <= p
         THEN [ok |-> TRUE, pos |-> p - ToNat(back)]
         ELSE [ok |-> FALSE, pos |-> p])

\* str::parse::<u32> from the digits on
RECURSIVE parse_digits(_, _)
parse_digits(b, acc) ==
    IF b = <<>> THEN [some |-> TRUE, val |-> <<acc[1], acc[2]>>]
    ELSE IF b[1] \notin 48..57 THEN [some |-> FALSE, val |-> W32(0)]
    ELSE Let(Add64(Mul64(acc, W64(10)).val, W64(b[1] - 48)).val, LAMBDA next :
             IF next[3] # 0 \/ next[4] # 0 THEN [some |-> FALSE, val |-> W32(0)]
             ELSE parse_digits(Tail(b), next))

\* str::parse::<u32>: an optional '+', then at least one digit, no overflow
parse_u32(b) ==
    IF b = <<>> \/ b = <<43>> THEN [some |-> FALSE, val |-> W32(0)]
    ELSE IF b[1] = 43 THEN parse_digits(Tail(b), W64(0))
    ELSE parse_digits(b, W64(0))

\* the bytes of a value or an array element of a fixed width, by type id
FixedWidth(type_id) ==
    CASE type_id \in {0, 1, 7} -> 1
      [] type_id \in {2, 3} -> 2
      [] type_id \in {4, 5, 6} -> 4
      [] type_id \in {10, 11, 12} -> 8

\* `for j in 0..array_len`: read a length, seek over the string
RECURSIVE open_skip_strings(_, _, _, _, _)
open_skip_strings(p, j, array_len, alignment, al) ==
    IF ~NatLess(j, array_len) THEN OpenOut("running", NoError, p, alignment, al)
    ELSE Let(read_u64_le(p), LAMBDA str_len :
         IF ~str_len.ok THEN OpenOut("Err", GgmlIoError, str_len.pos, alignment, al)
         ELSE Let(seek_current(str_len.pos, str_len.val), LAMBDA s :
              IF ~s.ok THEN OpenOut("Err", GgmlIoError, s.pos, alignment, al)
              ELSE open_skip_strings(s.pos, j + 1, array_len, alignment, al)))

\* GGUF_METADATA_VALUE_TYPE_ARRAY
open_array(p, alignment, al) ==
    Let(read_u32_le(p), LAMBDA array_type :
    IF ~array_type.ok THEN OpenOut("Err", GgmlIoError, array_type.pos, alignment, al)
    ELSE
    Let(read_u64_le(array_type.pos), LAMBDA array_len :
    IF ~array_len.ok THEN OpenOut("Err", GgmlIoError, array_len.pos, alignment, al)
    ELSE IF array_type.val = W32(8)
    THEN open_skip_strings(array_len.pos, 0, array_len.val, alignment, al)
    ELSE IF array_type.val[2] # 0 \/ array_type.val[1] \notin (0..7) \cup (10..12)
    THEN OpenOut("Err", Error("GgmlError::InvalidModelConfig", ""), array_len.pos,
                 alignment, al)
    ELSE
    Let(Mul64(array_len.val, W64(FixedWidth(array_type.val[1]))), LAMBDA bytes :
    IF bytes.overflow /\ build = "debug"
    THEN OpenOut("Panic", NoError, array_len.pos, alignment, al)
    ELSE
    Let(seek_current(array_len.pos, bytes.val), LAMBDA s :
    IF ~s.ok THEN OpenOut("Err", GgmlIoError, s.pos, alignment, al)
    ELSE OpenOut("running", NoError, s.pos, alignment, al)))))

\* GGUF_METADATA_VALUE_TYPE_STRING
open_string(p, is_alignment, alignment, al) ==
    Let(read_u64_le(p), LAMBDA str_len :
    IF ~str_len.ok THEN OpenOut("Err", GgmlIoError, str_len.pos, alignment, al)
    ELSE IF WLess(<<0, 16, 0, 0>>, str_len.val)
    THEN OpenOut("Err", Error("GgmlError::InvalidModelConfig", ""), str_len.pos,
                 alignment, al)
    ELSE
    Let(read_exact(str_len.pos, str_len.val), LAMBDA str_bytes :
    IF ~str_bytes.ok
    THEN OpenOut("Err", GgmlIoError, str_bytes.pos, alignment, al \cup {str_len.val})
    ELSE
    Let(parse_u32(str_bytes.val), LAMBDA parsed :
    OpenOut("running", NoError, str_bytes.pos,
            IF is_alignment /\ parsed.some THEN parsed.val ELSE alignment,
            al \cup {str_len.val}))))

\* `match value_type`
open_value(p, value_type, is_alignment, alignment, al) ==
    IF value_type[2] # 0 \/ value_type[1] > 12
    THEN OpenOut("Err", Error("GgmlError::InvalidModelConfig", ""), p, alignment, al)
    ELSE IF value_type[1] = 8 THEN open_string(p, is_alignment, alignment, al)
    ELSE IF value_type[1] = 9 THEN open_array(p, alignment, al)
    ELSE IF value_type[1] = 4
    THEN Let(read_u32_le(p), LAMBDA val :
             IF ~val.ok THEN OpenOut("Err", GgmlIoError, val.pos, alignment, al)
             ELSE OpenOut("running", NoError, val.pos,
                          IF is_alignment THEN val.val ELSE alignment, al))
    ELSE Let(read_bytes(p, FixedWidth(value_type[1])), LAMBDA val :
             IF ~val.ok THEN OpenOut("Err", GgmlIoError, val.pos, alignment, al)
             ELSE OpenOut("running", NoError, val.pos, alignment, al))

\* one iteration of `for i in 0..metadata_count`
open_metadata_entry(p, alignment) ==
    Let(read_u64_le(p), LAMBDA key_len :
    IF ~key_len.ok THEN OpenOut("Err", GgmlIoError, key_len.pos, alignment, {})
    ELSE IF WLess(W64(1024), key_len.val)
    THEN \* seek(pos - 8), read 16 bytes with `?`, seek(pos)
         IF Avail(key_len.pos - 8, 16)
         THEN OpenOut("Err", Error("GgmlError::InvalidModelConfig", ""), key_len.pos,
                      alignment, {})
         ELSE OpenOut("Err", GgmlIoError, Len(src), alignment, {})
    ELSE
    Let(read_exact(key_len.pos, key_len.val), LAMBDA key_bytes :
    IF ~key_bytes.ok
    THEN OpenOut("Err", GgmlIoError, key_bytes.pos, alignment, {key_len.val})
    ELSE
    Let(read_u32_le(key_bytes.pos), LAMBDA value_type :
    IF ~value_type.ok
    THEN OpenOut("Err", GgmlIoError, value_type.pos, alignment, {key_len.val})
    ELSE open_value(value_type.pos, value_type.val, key_bytes.val = AlignmentKey,
                    alignment, {key_len.val}))))

\* lib.rs's TensorType::from_u32
GgmlTensorType_from_u32(value) ==
    IF value[2] = 0 /\ value[1] <= 4
    THEN [some |-> TRUE, val |-> <<"F32", "F16", "Q4_0", "Q4_1", "Q8_0">>[value[1] + 1]]
    ELSE [some |-> FALSE, val |-> ""]

\* lib.rs's TensorType::element_size
Ggml_element_size(dtype) ==
    CASE dtype = "F32" -> 4
      [] dtype = "F16" -> 2
      [] dtype = "Q4_0" -> 4
      [] dtype = "Q4_1" -> 4
      [] dtype = "Q8_0" -> 8

\* `cursor.read_u64()? as u32` for each of the n_dims dimensions
RECURSIVE read_shape(_, _, _, _)
read_shape(p, dim_idx, n_dims, shape) ==
    IF ~NatLess(dim_idx, n_dims) THEN [ok |-> TRUE, val |-> shape, pos |-> p]
    ELSE Let(read_u64_le(p), LAMBDA dim_size :
         IF ~dim_size.ok THEN [ok |-> FALSE, val |-> shape, pos |-> dim_size.pos]
         ELSE read_shape(dim_size.pos, dim_idx + 1, n_dims,
                         Append(shape, <<dim_size.val[1], dim_size.val[2]>>)))

\* usize - 1
Sub1(n) ==
    IF n = W64(0) THEN Arith(MaxU64, TRUE)
    ELSE Arith(Neg64(Add64(Neg64(n), W64(1)).val), FALSE)

\* n / d * d for a divisor 0 < d < 2^15, from the highest half down
RECURSIVE RemFrom(_, _, _, _)
RemFrom(n, d, k, rem) ==
    IF k = 0 THEN rem ELSE RemFrom(n, d, k - 1, (rem * Half + n[k]) % d)

RoundDown(n, d) ==
    CASE d[2] = 0 /\ d[1] > 0 /\ d[1] < 32768 ->
        Neg64(Add64(Neg64(n), W64(RemFrom(n, d[1], 4, 0))).val)

\* `size = 1; for dim in &shape { size *= *dim as usize }`
RECURSIVE shape_product(_, _)
shape_product(shape, acc) ==
    IF shape = <<>> THEN acc
    ELSE Let(Mul64(acc.val, <<shape[1][1], shape[1][2], 0, 0>>), LAMBDA m :
             shape_product(Tail(shape), Arith(m.val, acc.overflow \/ m.overflow)))

\* (size * element_size + alignment - 1) / alignment * alignment; the status
\* is "Panic" on an overflow under overflow checks and on a division by zero
aligned_size(shape, dtype, alignment) ==
    Let(shape_product(shape, Arith(W64(1), FALSE)), LAMBDA size :
    Let(Mul64(size.val, W64(Ggml_element_size(dtype))), LAMBDA bytes :
    Let(Add64(bytes.val, <<alignment[1], alignment[2], 0, 0>>), LAMBDA sum :
    Let(Sub1(sum.val), LAMBDA top :
    IF \/ alignment = W32(0)
       \/ /\ build = "debug"
          /\ size.overflow \/ bytes.overflow \/ sum.overflow \/ top.overflow
    THEN [status |-> "Panic", val |-> W64(0)]
    ELSE [status |-> "running", val |-> RoundDown(top.val, alignment)]))))

TensorRef(name, shape, dtype, offset, size) ==
    [name |-> name, shape |-> shape, dtype |-> dtype, offset |-> offset, size |-> size]

TensorOut(st, e, at, list, al) ==
    [status |-> st, err |-> e, pos |-> at, list |-> list, allocs |-> al]

\* one iteration of `for i in 0..tensor_count`
open_tensor_entry(p, alignment, list) ==
    Let(read_u64_le(p), LAMBDA name_len :
    IF ~name_len.ok THEN TensorOut("Err", GgmlIoError, name_len.pos, list, {})
    ELSE
    Let(read_exact(name_len.pos, name_len.val), LAMBDA name_bytes :
    IF ~name_bytes.ok
    THEN TensorOut("Err", GgmlIoError, name_bytes.pos, list, {name_len.val})
    ELSE
    Let(read_u32_le(name_bytes.pos), LAMBDA n_dims :
    IF ~n_dims.ok THEN TensorOut("Err", GgmlIoError, n_dims.pos, list, {name_len.val})
    ELSE
    Let(read_shape(n_dims.pos, 0, n_dims.val, <<>>), LAMBDA shape :
    IF ~shape.ok THEN TensorOut("Err", GgmlIoError, shape.pos, list, {name_len.val})
    ELSE
    Let(read_u32_le(shape.pos), LAMBDA dtype_int :
    IF ~dtype_int.ok
    THEN TensorOut("Err", GgmlIoError, dtype_int.pos, list, {name_len.val})
    ELSE
    Let(GgmlTensorType_from_u32(dtype_int.val), LAMBDA dtype :
    IF ~dtype.some
    THEN TensorOut("Err", Error("GgmlError::UnsupportedTensorType", ""), dtype_int.pos,
                   list, {name_len.val})
    ELSE
    Let(read_u64_le(dtype_int.pos), LAMBDA offset :
    IF ~offset.ok THEN TensorOut("Err", GgmlIoError, offset.pos, list, {name_len.val})
    ELSE
    Let(aligned_size(shape.val, dtype.val, alignment), LAMBDA size :
    TensorOut(size.status, NoError, offset.pos,
              IF size.status = "Panic" THEN list
              ELSE push(list, TensorRef(name_bytes.val, shape.val, dtype.val,
                                        offset.val, size.val)),
              {name_len.val})))))))))

\* tensor_map.insert(tensor.name.clone(), i) for each tensor in turn
RECURSIVE tensor_map(_, _, _)
tensor_map(list, i, map) ==
    IF i > Len(list) THEN map
    ELSE tensor_map(list, i + 1, Insert(map, list[i].name, i - 1))

GgmlFile(list) == [tensors |-> list, tensor_map |-> tensor_map(list, 1, EmptyMap)]

\* &self.mmap[tensor.offset as usize..tensor.offset as usize + tensor.size]
tensor_data(tensor) ==
    Let(Add64(tensor.offset, tensor.size), LAMBDA end :
    IF \/ end.overflow /\ build = "debug"
       \/ WLess(end.val, tensor.offset)
       \/ ~IsSmall(end.val)
       \/ ToNat(end.val) > Len(src)
    THEN [status |-> "Panic", val |-> NoRet]
    ELSE [status |-> "Ok", val |-> SubSeq(src, ToNat(tensor.offset) + 1, ToNat(end.val))])

(***************************************************************************)
(* extract_model_config (config.rs) on a metadata mapping, with Value's    *)
(* accessors (metadata.rs).  Keys and messages are UTF-8 bytes; a float is *)
(* its bit pattern, and `as f64`, `as f32` are computed on the patterns.   *)
(***************************************************************************)
None == [some |-> FALSE, val |-> <<>>]

Some(x) == [some |-> TRUE, val |-> x]

\* HashMap::get
get(metadata, key) == IF key \in DOMAIN metadata THEN Some(metadata[key]) ELSE None

\* Value::as_string
as_string(value) == IF value.t = "String" THEN Some(value.v) ELSE None

\* Value::as_u64 with the signed kinds taken too
as_u64_any_integer(value) ==
    CASE value.t = "Uint64" -> Some(value.v)
      [] value.t = "Uint32" -> Some(<<value.v[1], value.v[2], 0, 0>>)
      [] value.t \in {"Uint16", "Uint8"} -> Some(W64(value.v))
      [] value.t \in {"Int16", "Int8"} -> Some(W64((value.v + Half) % Half))
      [] value.t = "Int32" -> Some(<<value.v % Half, 0, 0, 0>>)
      [] OTHER -> None

\* Value::as_u64
as_u64(value) ==
    CASE value.t = "Uint64" -> Some(value.v)
      [] value.t = "Uint32" -> Some(<<value.v[1], value.v[2], 0, 0>>)
      [] value.t \in {"Uint16", "Uint8"} -> Some(W64(value.v))
      [] OTHER -> None

RECURSIVE TwoTo(_)
TwoTo(k) == IF k = 0 THEN 1 ELSE 2 * TwoTo(k - 1)

\* the bits of an f32 from its sign and the 31 bits below it
F32Bits(sign, low31) == <<low31 % Half, sign * 32768 + low31 \div Half>>

\* the bits of an f64 from its sign, exponent field and the top 23 bits of
\* its mantissa
F64Bits(sign, exp, top23) ==
    <<0, (top23 % 8) * 8192, (top23 \div 8) % Half,
      sign * 32768 + exp * 16 + top23 \div TwoTo(19)>>

\* a subnormal f32 mantissa shifted up until bit 23 is set
RECURSIVE Normalise(_, _)
Normalise(m, k) == IF m >= TwoTo(23) THEN [m |-> m, k |-> k] ELSE Normalise(2 * m, k + 1)

\* `f as f64` for an f32: exact
f32_as_f64(w) ==
    LET sign == w[2] \div 32768
        exp == (w[2] % 32768) \div 128
        m == (w[2] % 128) * Half + w[1]
    IN  IF exp = 255
        THEN F64Bits(sign, 2047,
                     IF m = 0 \/ m >= TwoTo(22) THEN m ELSE m + TwoTo(22))
        ELSE IF exp = 0
        THEN IF m = 0 THEN F64Bits(sign, 0, 0)
             ELSE Let(Normalise(m, 0), LAMBDA n :
                      F64Bits(sign, 897 - n.k, n.m - TwoTo(23)))
        ELSE F64Bits(sign, exp + 896, m)

\* a value q with remainder r out of 2 * half, rounded to nearest, ties to even
RoundEven(q, r, half, sticky) ==
    IF r > half \/ (r = half /\ (sticky \/ q % 2 = 1)) THEN q + 1 ELSE q

\* `f as f32` for an f64: to the nearest f32, ties to even
f64_as_f32(w) ==
    LET sign == w[4] \div 32768
        exp == (w[4] % 32768) \div 16
        top23 == (w[4] % 16) * TwoTo(19) + w[3] * 8 + w[2] \div 8192
        low29 == (w[2] % 8192) * Half + w[1]
        e32 == exp - 896
    IN  IF exp = 2047
        THEN IF top23 = 0 /\ low29 = 0 THEN F32Bits(sign, 255 * TwoTo(23))
             ELSE F32Bits(sign, 255 * TwoTo(23) + TwoTo(22) + (top23 % TwoTo(22)))
        ELSE IF e32 >= 255 THEN F32Bits(sign, 255 * TwoTo(23))
        ELSE IF e32 >= 1
        THEN F32Bits(sign, RoundEven(e32 * TwoTo(23) + top23, low29, TwoTo(28), FALSE))
        ELSE IF exp = 0 \/ 1 - e32 >= 25 THEN F32Bits(sign, 0)
        ELSE F32Bits(sign, RoundEven((TwoTo(23) + top23) \div TwoTo(1 - e32),
                                     (TwoTo(23) + top23) % TwoTo(1 - e32),
                                     TwoTo(0 - e32), low29 # 0))

\* Value::as_f64 without the Float32 arm
as_f64_of_f64_only(value) ==
    CASE value.t = "Float64" -> Some(value.v)
      [] OTHER -> None

\* Value::as_f64
as_f64(value) ==
    CASE value.t = "Float64" -> Some(value.v)
      [] value.t = "Float32" -> Some(f32_as_f64(value.v))
      [] OTHER -> None

\* `v as u32` taken as a saturating conversion
as_u32_saturating(w) == IF w[3] # 0 \/ w[4] # 0 THEN <<65535, 65535>> ELSE <<w[1], w[2]>>

\* `v as u32`
as_u32(w) == <<w[1], w[2]>>

\* "Missing or invalid field: "
MissingOrInvalid ==
    <<77, 105, 115, 115, 105, 110, 103, 32, 111, 114, 32, 105, 110, 118,
      97, 108, 105, 100, 32, 102, 105, 101, 108, 100, 58, 32>>

\* "Missing general.architecture"
MissingArchitecture ==
    <<77, 105, 115, 115, 105, 110, 103, 32, 103, 101, 110, 101, 114, 97,
      108, 46, 97, 114, 99, 104, 105, 116, 101, 99, 116, 117, 114, 101>>

\* "general.architecture"
ArchitectureKey ==
    <<103, 101, 110, 101, 114, 97, 108, 46, 97, 114, 99, 104, 105, 116,
      101, 99, 116, 117, 114, 101>>

\* the suffixes of the required keys, in the order they are read
RequiredSuffixes ==
    << \* .block_count
       <<46, 98, 108, 111, 99, 107, 95, 99, 111, 117, 110, 116>>,
       \* .context_length
       <<46, 99, 111, 110, 116, 101, 120, 116, 95, 108, 101, 110, 103, 116, 104>>,
       \* .embedding_length
       <<46, 101, 109, 98, 101, 100, 100, 105, 110, 103, 95, 108, 101, 110, 103, 116, 104>>,
       \* .feed_forward_length
       <<46, 102, 101, 101, 100, 95, 102, 111, 114, 119, 97, 114, 100, 95, 108, 101, 110, 103, 116, 104>>,
       \* .attention.head_count
       <<46, 97, 116, 116, 101, 110, 116, 105, 111, 110, 46, 104, 101, 97, 100, 95, 99, 111, 117, 110, 116>> >>

\* the suffixes of the optional keys, in the order they are read
OptionalSuffixes ==
    << \* .attention.head_count_kv
       <<46, 97, 116, 116, 101, 110, 116, 105, 111, 110, 46, 104, 101, 97, 100, 95, 99, 111, 117, 110, 116, 95, 107, 118>>,
       \* .attention.key_length
       <<46, 97, 116, 116, 101, 110, 116, 105, 111, 110, 46, 107, 101, 121, 95, 108, 101, 110, 103, 116, 104>>,
       \* .attention.layer_norm_rms_epsilon
       <<46, 97, 116, 116, 101, 110, 116, 105, 111, 110, 46, 108, 97, 121, 101, 114, 95, 110, 111, 114, 109, 95, 114, 109, 115, 95, 101, 112, 115, 105, 108, 111, 110>>,
       \* .rope.freq_base
       <<46, 114, 111, 112, 101, 46, 102, 114, 101, 113, 95, 98, 97, 115, 101>> >>

ConfigErr(msg) ==
    [ok |-> FALSE, val |-> NoRet, err |-> Error("GgufError::InvalidFormat", msg)]

get_u32_field(metadata, key) ==
    Let(get(metadata, key), LAMBDA found :
        IF found.some /\ as_u64(found.val).some
        THEN [ok |-> TRUE, val |-> as_u32(as_u64(found.val).val), err |-> NoError]
        ELSE ConfigErr(MissingOrInvalid \o key))

get_optional_u32_field(metadata, key) ==
    Let(get(metadata, key), LAMBDA found :
        IF found.some /\ as_u64(found.val).some
        THEN Some(as_u32(as_u64(found.val).val))
        ELSE None)

get_optional_f32_field(metadata, key) ==
    Let(get(metadata, key), LAMBDA found :
        IF found.some /\ as_f64(found.val).some
        THEN Some(f64_as_f32(as_f64(found.val).val))
        ELSE None)

ModelConfig(architecture, required, optional) ==
    [architecture |-> architecture,
     block_count |-> required[1],
     context_length |-> required[2],
     embedding_length |-> required[3],
     feed_forward_length |-> required[4],
     attention_head_count |-> required[5],
     attention_head_count_kv |-> optional[1],
     attention_key_length |-> optional[2],
     layer_norm_epsilon |-> optional[3],
     rope_freq_base |-> optional[4]]

\* the five `get_u32_field(..)?` in turn, from the n-th on
RECURSIVE required_fields(_, _, _, _)
required_fields(metadata, arch_prefix, n, done) ==
    IF n > Len(RequiredSuffixes) THEN [ok |-> TRUE, val |-> done, err |-> NoError]
    ELSE Let(get_u32_field(metadata, arch_prefix \o RequiredSuffixes[n]), LAMBDA field :
             IF ~field.ok THEN field
             ELSE required_fields(metadata, arch_prefix, n + 1, Append(done, field.val)))

extract_model_config(metadata) ==
    Let(get(metadata, ArchitectureKey), LAMBDA found :
    IF ~found.some \/ ~as_string(found.val).some THEN ConfigErr(MissingArchitecture)
    ELSE
    Let(as_string(found.val).val, LAMBDA arch_prefix :
    Let(required_fields(metadata, arch_prefix, 1, <<>>), LAMBDA required :
    IF ~required.ok THEN required
    ELSE [ok |-> TRUE,
          val |-> ModelConfig(arch_prefix, required.val,
                      <<get_optional_u32_field(metadata,
                                               arch_prefix \o OptionalSuffixes[1]),
                        get_optional_u32_field(metadata,
                                               arch_prefix \o OptionalSuffixes[2]),
                        get_optional_f32_field(metadata,
                                               arch_prefix \o OptionalSuffixes[3]),
                        get_optional_f32_field(metadata,
                                               arch_prefix \o OptionalSuffixes[4])>>),
          err |-> NoError])))

(***************************************************************************)
(* ModelBuilder (model.rs): the flat tensor mapping organised into a       *)
(* Model.  `self.tensors` is a function from names to tensors.             *)
(***************************************************************************)
\* "token_embd.weight"
TokenEmbd == <<116, 111, 107, 101, 110, 95, 101, 109, 98, 100, 46, 119, 101, 105, 103, 104, 116>>

\* "output.weight"
OutputWeight == <<111, 117, 116, 112, 117, 116, 46, 119, 101, 105, 103, 104, 116>>

\* "output_norm.weight"
OutputNorm == <<111, 117, 116, 112, 117, 116, 95, 110, 111, 114, 109, 46, 119, 101, 105, 103, 104, 116>>

\* the tensors of a block in the order build_transformer_block takes them:
\*   query_weights   "{}.attn_q.weight"
\*   key_weights     "{}.attn_k.weight"
\*   value_weights   "{}.attn_v.weight"
\*   output_weights  "{}.attn_output.weight"
\*   query_norm      "{}.attn_q_norm.weight"  (optional)
\*   key_norm        "{}.attn_k_norm.weight"  (optional)
\*   attention_norm  "{}.attn_norm.weight"  (optional)
\*   gate_weights    "{}.ffn_gate.weight"  (optional)
\*   up_weights      "{}.ffn_up.weight"
\*   down_weights    "{}.ffn_down.weight"
\*   ffn_norm        "{}.ffn_norm.weight"  (optional)
BlockSlots ==
    << [suffix |-> <<46, 97, 116, 116, 110, 95, 113, 46, 119, 101, 105, 103, 104, 116>>,
        required |-> TRUE],
       [suffix |-> <<46, 97, 116, 116, 110, 95, 107, 46, 119, 101, 105, 103, 104, 116>>,
        required |-> TRUE],
       [suffix |-> <<46, 97, 116, 116, 110, 95, 118, 46, 119, 101, 105, 103, 104, 116>>,
        required |-> TRUE],
       [suffix |-> <<46, 97, 116, 116, 110, 95, 111, 117, 116, 112, 117, 116, 46, 119, 101, 105, 103, 104, 116>>,
        required |-> TRUE],
       [suffix |-> <<46, 97, 116, 116, 110, 95, 113, 95, 110, 111, 114, 109, 46, 119, 101, 105, 103, 104, 116>>,
        required |-> FALSE],
       [suffix |-> <<46, 97, 116, 116, 110, 95, 107, 95, 110, 111, 114, 109, 46, 119, 101, 105, 103, 104, 116>>,
        required |-> FALSE],
       [suffix |-> <<46, 97, 116, 116, 110, 95, 110, 111, 114, 109, 46, 119, 101, 105, 103, 104, 116>>,
        required |-> FALSE],
       [suffix |-> <<46, 102, 102, 110, 95, 103, 97, 116, 101, 46, 119, 101, 105, 103, 104, 116>>,
        required |-> FALSE],
       [suffix |-> <<46, 102, 102, 110, 95, 117, 112, 46, 119, 101, 105, 103, 104, 116>>,
        required |-> TRUE],
       [suffix |-> <<46, 102, 102, 110, 95, 100, 111, 119, 110, 46, 119, 101, 105, 103, 104, 116>>,
        required |-> TRUE],
       [suffix |-> <<46, 102, 102, 110, 95, 110, 111, 114, 109, 46, 119, 101, 105, 103, 104, 116>>,
        required |-> FALSE] >>

\* Display of a usize
RECURSIVE Decimal(_)
Decimal(n) == IF n < 10 THEN <<48 + n>> ELSE Decimal(n \div 10) \o <<48 + (n % 10)>>

\* the prefix with the blocks counted from one
prefix_from_one(layer_idx) == <<98, 108, 107, 46>> \o Decimal(layer_idx + 1)

\* format!("blk.{}", layer_idx)
prefix(layer_idx) == <<98, 108, 107, 46>> \o Decimal(layer_idx)

\* the lookup that leaves the entry in the map
remove_nothing(self_tensors, name) == self_tensors

\* what HashMap::remove leaves of the map
remove(self_tensors, name) == [k \in DOMAIN self_tensors \ {name} |-> self_tensors[k]]

\* format!("Required tensor '{}' not found", name)
NotFound(name) ==
    <<82, 101, 113, 117, 105, 114, 101, 100, 32, 116, 101, 110, 115, 111, 114, 32, 39>> \o name \o <<39, 32, 110, 111, 116, 32, 102, 111, 117, 110, 100>>

\* ModelBuilder::try_take_tensor
try_take_tensor(self_tensors, name) ==
    [ok |-> TRUE,
     val |-> IF name \in DOMAIN self_tensors THEN Some(self_tensors[name]) ELSE None,
     tensors |-> remove(self_tensors, name), err |-> NoError]

\* ModelBuilder::take_tensor
take_tensor(self_tensors, name) ==
    IF name \in DOMAIN self_tensors
    THEN [ok |-> TRUE, val |-> self_tensors[name],
          tensors |-> remove(self_tensors, name), err |-> NoError]
    ELSE [ok |-> FALSE, val |-> NoRet, tensors |-> self_tensors,
          err |-> Error("GgufError::InvalidFormat", NotFound(name))]

\* the fields of AttentionLayer and FeedForwardLayer, from the n-th on
RECURSIVE take_slots(_, _, _, _)
take_slots(self_tensors, block_prefix, n, taken) ==
    IF n > Len(BlockSlots)
    THEN [ok |-> TRUE, val |-> taken, tensors |-> self_tensors, err |-> NoError]
    ELSE Let(IF BlockSlots[n].required
             THEN take_tensor(self_tensors, block_prefix \o BlockSlots[n].suffix)
             ELSE try_take_tensor(self_tensors, block_prefix \o BlockSlots[n].suffix),
             LAMBDA t :
                 IF ~t.ok THEN t
                 ELSE take_slots(t.tensors, block_prefix, n + 1, Append(taken, t.val)))

\* every block numbered 0
TransformerBlock_unnumbered(layer_index, taken) ==
    [layer_index |-> 0,
     attention |-> [query_weights |-> taken[1], key_weights |-> taken[2],
                    value_weights |-> taken[3], output_weights |-> taken[4],
                    query_norm |-> taken[5], key_norm |-> taken[6],
                    attention_norm |-> taken[7]],
     feed_forward |-> [gate_weights |-> taken[8], up_weights |-> taken[9],
                       down_weights |-> taken[10], ffn_norm |-> taken[11]]]

TransformerBlock(layer_index, taken) ==
    [layer_index |-> layer_index,
     attention |-> [query_weights |-> taken[1], key_weights |-> taken[2],
                    value_weights |-> taken[3], output_weights |-> taken[4],
                    query_norm |-> taken[5], key_norm |-> taken[6],
                    attention_norm |-> taken[7]],
     feed_forward |-> [gate_weights |-> taken[8], up_weights |-> taken[9],
                       down_weights |-> taken[10], ffn_norm |-> taken[11]]]

\* ModelBuilder::build_embeddings
build_embeddings(self_tensors) ==
    Let(take_tensor(self_tensors, TokenEmbd), LAMBDA t :
        IF ~t.ok THEN t ELSE [t EXCEPT !.val = [token_embeddings |-> t.val]])

\* ModelBuilder::build_transformer_block
build_transformer_block(self_tensors, layer_idx) ==
    Let(take_slots(self_tensors, prefix(layer_idx), 1, <<>>), LAMBDA t :
        IF ~t.ok THEN t ELSE [t EXCEPT !.val = TransformerBlock(layer_idx, t.val)])

\* ModelBuilder::build_output_layer
build_output_layer(self_tensors) ==
    Let(take_tensor(self_tensors, OutputWeight), LAMBDA w :
        IF ~w.ok THEN w
        ELSE Let(try_take_tensor(w.tensors, OutputNorm), LAMBDA n :
                 [n EXCEPT !.val = [output_weights |-> w.val, output_norm |-> n.val]]))

\* i < block_count, for a u32 block_count
InRange(i, block_count) == block_count[2] > 0 \/ i < block_count[1]

\* `for i in 0..self.config.block_count { .. }`
RECURSIVE build_blocks(_, _, _, _)
build_blocks(self_tensors, i, block_count, transformer_blocks) ==
    IF ~InRange(i, block_count)
    THEN [ok |-> TRUE, val |-> transformer_blocks, tensors |-> self_tensors,
          err |-> NoError]
    ELSE Let(build_transformer_block(self_tensors, i), LAMBDA block :
             IF ~block.ok THEN block
             ELSE build_blocks(block.tensors, i + 1, block_count,
                               Append(transformer_blocks, block.val)))

Model(self_config, embeddings, transformer_blocks, output_layer) ==
    [architecture |-> self_config.architecture,
     config |-> self_config,
     embeddings |-> embeddings,
     transformer_blocks |-> transformer_blocks,
     output_layer |-> output_layer]

\* ModelBuilder::build
ModelBuilder_build(self_tensors, self_config) ==
    Let(build_embeddings(self_tensors), LAMBDA embeddings :
    IF ~embeddings.ok THEN embeddings
    ELSE
    Let(build_blocks(embeddings.tensors, 0, self_config.block_count, <<>>),
        LAMBDA blocks :
    IF ~blocks.ok THEN blocks
    ELSE
    Let(build_output_layer(blocks.tensors), LAMBDA output_layer :
    IF ~output_layer.ok THEN output_layer
    ELSE [output_layer EXCEPT
              !.val = Model(self_config, embeddings.val, blocks.val,
                            output_layer.val)])))

\* dims[i] of a Vec: a panic outside it
Index(dims, i) ==
    IF i < Len(dims) THEN [ok |-> TRUE, val |-> dims[i + 1]]
    ELSE [ok |-> FALSE, val |-> NoRet]

\* EmbeddingLayer::vocab_size
EmbeddingLayer_vocab_size(self) == Index(self.token_embeddings.info.dims, 1)

\* EmbeddingLayer::embedding_dim
EmbeddingLayer_embedding_dim(self) == Index(self.token_embeddings.info.dims, 1)

\* Model::vocab_size
Model_vocab_size(self) == EmbeddingLayer_vocab_size(self.embeddings)

\* Model::num_layers
Model_num_layers(self) == [ok |-> TRUE, val |-> W64(Len(self.transformer_blocks))]

(***************************************************************************)
(* The binary layout, written out: how a file is built from a header, a    *)
(* list of metadata entries and a list of tensor descriptors.              *)
(***************************************************************************)
RECURSIVE Flatten(_)
Flatten(ss) == IF ss = <<>> THEN <<>> ELSE ss[1] \o Flatten(Tail(ss))

TypeId(t) == CHOOSE i \in 0..12 : ValueTypes[i + 1] = t

StringBytes(b) == LeBytes(W64(Len(b))) \o b

RECURSIVE PayloadBytes(_)
PayloadBytes(value) ==
    CASE value.t = "Uint8"   -> <<value.v>>
      [] value.t = "Int8"    -> <<(value.v + 256) % 256>>
      [] value.t = "Uint16"  -> LeU16(value.v)
      [] value.t = "Int16"   -> LeU16((value.v + Half) % Half)
      [] value.t = "Uint32"  -> LeBytes(value.v)
      [] value.t = "Int32"   -> LeBytes(<<value.v % Half, (value.v \div Half + Half) % Half>>)
      [] value.t = "Float32" -> LeBytes(value.v)
      [] value.t = "Bool"    -> <<IF value.v THEN 1 ELSE 0>>
      [] value.t = "String"  -> StringBytes(value.v)
      [] value.t = "Array"   ->
            LeBytes(W32(TypeId(value.et))) \o LeBytes(W64(Len(value.v)))
                \o Flatten([i \in 1..Len(value.v) |-> PayloadBytes(value.v[i])])
      [] value.t = "Uint64"  -> LeBytes(value.v)
      [] value.t = "Int64"   ->
            LeBytes(<<value.v[1], value.v[2], value.v[3], (value.v[4] + Half) % Half>>)
      [] value.t = "Float64" -> LeBytes(value.v)

EntryBytes(e) ==
    StringBytes(e.key) \o LeBytes(W32(TypeId(e.value.t))) \o PayloadBytes(e.value)

TensorBytes(t) ==
    StringBytes(t.name) \o LeBytes(W32(Len(t.dims)))
        \o Flatten([i \in 1..Len(t.dims) |-> LeBytes(t.dims[i])])
        \o LeBytes(t.type_id) \o LeBytes(t.offset)

\* the layout "gguf" has both counts in the header; the layout "open" is the
\* one GgmlFile::open reads, with the tensor count after the entries
WholeFile(g) ==
    g.magic \o LeBytes(g.version)
        \o (IF g.layout = "open" THEN <<>> ELSE LeBytes(g.n_tensors))
        \o LeBytes(g.n_kv)
        \o Flatten([i \in 1..Len(g.kvs) |-> EntryBytes(g.kvs[i])])
        \o g.raw
        \o (IF g.layout = "open" THEN LeBytes(g.n_tensors) ELSE <<>>)
        \o Flatten([i \in 1..Len(g.tinfos) |-> TensorBytes(g.tinfos[i])])
        \o g.data

\* the file, or its first g.cut bytes when it is truncated (cut = -1: whole)
FileBytes(g) ==
    IF g.cut < 0 THEN WholeFile(g) ELSE SubSeq(WholeFile(g), 1, g.cut)

(***************************************************************************)
(* The files the decoders are run on.                                      *)
(***************************************************************************)
Given(magic, version, n_tensors, n_kv, kvs, raw, tinfos, data, cut) ==
    [magic |-> magic, version |-> version, n_tensors |-> n_tensors, n_kv |-> n_kv,
     kvs |-> kvs, raw |-> raw, tinfos |-> tinfos, data |-> data, cut |-> cut,
     layout |-> "gguf"]

Entry(key, value) == [key |-> key, value |-> value]

SeqsUpTo(S, n) == UNION {[1..m -> S] : m \in 0..n}

\* "GGUF"
MagicBytes == <<71, 71, 85, 70>>

Pow2(k) == CASE k = 0 -> 1 [] k = 1 -> 2 [] k = 2 -> 4 [] k = 3 -> 8
             [] k = 4 -> 16 [] k = 5 -> 32 [] k = 6 -> 64 [] k = 7 -> 128

\* the bytes b with bit k (0..31) inverted
FlipBit(b, k) ==
    LET i == k \div 8 + 1
        m == Pow2(k % 8)
    IN  [b EXCEPT ![i] = IF (b[i] \div m) % 2 = 1 THEN b[i] - m ELSE b[i] + m]

Versions == {W32(0), W32(1), W32(2), W32(3), W32(4), <<65535, 32767>>, <<65535, 65535>>}

HeaderInputs ==
    {Given(MagicBytes, v, W64(nt), W64(nk), <<>>, <<>>, <<>>, d, -1) :
        v \in Versions, nt \in 0..1, nk \in 0..1, d \in {<<>>, <<9, 9>>}}
    \cup {Given(FlipBit(MagicBytes, k), W32(3), W64(0), W64(0), <<>>, <<>>, <<>>, <<>>, -1) :
        k \in 0..31}
    \cup {Given(m, W32(3), W64(0), W64(0), <<>>, <<>>, <<>>, <<>>, -1) :
        m \in {<<70, 85, 71, 71>>, <<71, 71, 77, 76>>, <<103, 103, 117, 102>>}}
    \cup {Given(MagicBytes, W32(3), W64(0), W64(0), <<>>, <<>>, <<>>, <<>>, cut) :
        cut \in 0..23}

\* one value of each of the 13 kinds, and more
SampleValues ==
    << Scalar("Uint8", 200),
       Scalar("Int8", -56),
       Scalar("Uint16", 4660),
       Scalar("Int16", -2),
       Scalar("Uint32", W32(70000)),
       Scalar("Uint32", <<65535, 65535>>),
       Scalar("Int32", -70000),
       Scalar("Float32", <<0, 16256>>),
       Scalar("Bool", TRUE),
       Scalar("Bool", FALSE),
       Scalar("String", <<104, 105>>),
       Scalar("String", <<>>),
       Scalar("String", <<195, 169>>),
       Array("Uint32", <<W32(1), W32(2), W32(3)>>),
       Array("String", <<Scalar("String", <<97>>), Scalar("String", <<98, 99>>)>>),
       Array("Uint8", <<>>),
       Array("Array", <<Array("Uint16", <<Scalar("Uint16", 7)>>)>>),
       Scalar("Uint64", <<1, 2, 3, 4>>),
       Scalar("Int64", <<65535, 65535, 65535, -1>>),
       Scalar("Float64", <<0, 0, 0, 16368>>) >>

\* the elements of the uint32 array above are values themselves
FixUp(v) ==
    IF v.t = "Array" /\ v.et = "Uint32"
    THEN Array("Uint32", [i \in 1..Len(v.v) |-> Scalar("Uint32", v.v[i])])
    ELSE v

Samples == [i \in 1..Len(SampleValues) |-> FixUp(SampleValues[i])]

Keys == {<<97>>, <<98>>}

CoreValues == {Samples[5], Samples[11], Samples[14], Samples[9]}

CoreEntries == {Entry(k, v) : k \in Keys, v \in CoreValues}

MetadataFile(n_kv, kvs, raw, cut) ==
    Given(MagicBytes, W32(3), W64(0), W64(n_kv), kvs, raw, <<>>, <<>>, cut)

BlockInputs ==
    {MetadataFile(Len(kvs), kvs, <<>>, -1) : kvs \in SeqsUpTo(CoreEntries, MaxKV)}
    \cup {MetadataFile(2, <<e>>, <<>>, -1) : e \in CoreEntries}

SingleInputs ==
    UNION {
        LET e == Entry(<<97>>, Samples[i])
        IN  {MetadataFile(1, <<e>>, <<>>, cut) :
                cut \in {-1} \cup 24..(23 + Len(EntryBytes(e)))}
        : i \in 1..Len(Samples)}
    \cup {MetadataFile(1, <<Entry(<<195, 169>>, Samples[i])>>, <<>>, -1) :
            i \in 1..Len(Samples)}

\* one entry of every sample, under the keys "kA", "kB", ...
AllKinds ==
    MetadataFile(Len(Samples),
                 [i \in 1..Len(Samples) |-> Entry(<<107, 64 + i>>, Samples[i])],
                 <<>>, -1)

\* 1 MiB as a u64, and one more
MiB == <<0, 16, 0, 0>>

MiBPlus1 == <<1, 16, 0, 0>>

\* entries that are not the encoding of any (key, value)
RawEntries ==
    << StringBytes(<<97>>) \o LeBytes(W32(13)) \o <<1>>,
       StringBytes(<<97>>) \o LeBytes(<<4, 1>>) \o <<1, 0, 0, 0>>,
       StringBytes(<<97>>) \o LeBytes(W32(9)) \o LeBytes(W32(13)) \o LeBytes(W64(1)) \o <<1>>,
       LeBytes(MiBPlus1) \o <<97>>,
       LeBytes(MiB) \o <<97>>,
       StringBytes(<<97>>) \o LeBytes(W32(8)) \o LeBytes(MiBPlus1) \o <<104>>,
       StringBytes(<<97>>) \o LeBytes(W32(9)) \o LeBytes(W32(8)) \o LeBytes(W64(1))
           \o LeBytes(MiBPlus1) \o <<104>>,
       LeBytes(W64(1)) \o <<255>> \o LeBytes(W32(0)) \o <<1>>,
       StringBytes(<<97>>) \o LeBytes(W32(8)) \o LeBytes(W64(2)) \o <<195, 40>> >>

MalformedInputs ==
    {MetadataFile(Len(pre) + 1, pre, RawEntries[i], -1) :
        i \in 1..Len(RawEntries), pre \in {<<>>, <<Entry(<<98>>, Samples[5])>>}}

GivenTensor(name, dims, type_id, offset) ==
    [name |-> name, dims |-> dims, type_id |-> type_id, offset |-> offset]

CoreTensors ==
    { GivenTensor(<<116>>, <<W64(2), W64(3)>>, W32(0), W64(0)),
      GivenTensor(<<117, 118>>, <<>>, W32(1), W64(32)),
      GivenTensor(<<116>>, <<W64(4)>>, W32(8), <<0, 0, 1, 0>>),
      GivenTensor(<<119>>, <<<<1, 2, 3, 4>>>>, W32(29), W64(64)) }

TensorFile(n_tensors, kvs, tinfos, data, cut) ==
    Given(MagicBytes, W32(3), W64(n_tensors), W64(Len(kvs)), kvs, <<>>, tinfos, data, cut)

TensorInputs ==
    {TensorFile(Len(ts), kvs, ts, d, -1) :
        ts \in SeqsUpTo(CoreTensors, MaxTensors),
        kvs \in {<<>>, <<Entry(<<97>>, Samples[5])>>},
        d \in {<<>>, <<1, 2, 3, 4>>}}
    \cup {TensorFile(2, <<>>, <<t>>, <<>>, -1) : t \in CoreTensors}
    \cup {TensorFile(1, <<>>, <<GivenTensor(<<116>>, <<W64(2)>>, id, W64(0))>>, <<>>, -1) :
            id \in {W32(n) : n \in 0..31} \cup {<<0, 1>>, <<65535, 65535>>}}
    \cup {TensorFile(1, <<>>, <<GivenTensor(name, <<W64(2)>>, W32(0), W64(0))>>, <<>>, -1) :
            name \in {[i \in 1..n |-> 116] : n \in {0, 1, 64, 65}}}
    \cup UNION {
            {TensorFile(1, <<>>, <<t>>, <<>>, cut) : cut \in 24..(23 + Len(TensorBytes(t)))}
            : t \in CoreTensors}

\* descriptors for the loaders: fitting the data, a name twice, no elements,
\* quantized, a product above 2^64, an offset that wraps, a range one byte long
LoadTensors ==
    { GivenTensor(<<97>>, <<W64(2)>>, W32(24), W64(0)),
      GivenTensor(<<98>>, <<W64(1)>>, W32(1), W64(2)),
      GivenTensor(<<97>>, <<W64(3)>>, W32(24), W64(1)),
      GivenTensor(<<122>>, <<W64(0)>>, W32(0), W64(0)),
      GivenTensor(<<113>>, <<W64(2)>>, W32(12), W64(0)),
      GivenTensor(<<111>>, <<<<0, 0, 1, 0>>, <<0, 0, 1, 0>>>>, W32(0), W64(0)),
      GivenTensor(<<119>>, <<W64(1)>>, W32(24), MaxU64),
      GivenTensor(<<115>>, <<W64(5)>>, W32(24), W64(0)) }

\* one descriptor each: sizes that overflow, that no buffer can have
LargeTensors ==
    { GivenTensor(<<116>>, <<<<0, 0, 0, 16384>>>>, W32(0), W64(0)),
      GivenTensor(<<116>>, <<<<0, 0, 0, 32768>>>>, W32(24), W64(0)),
      GivenTensor(<<116>>, <<<<0, 0, 256, 0>>>>, W32(24), W64(0)),
      GivenTensor(<<116>>, <<<<0, 0, 1, 0>>, <<0, 0, 1, 0>>>>, W32(12), W64(0)),
      GivenTensor(<<116>>, <<W64(3), <<0, 0, 0, 32768>>>>, W32(28), W64(0)) }

LoadInputs ==
    {TensorFile(Len(ts), <<>>, ts, d, -1) :
        ts \in {<<a>> : a \in LoadTensors \cup LargeTensors}
               \cup {<<a, b>> : a \in LoadTensors, b \in LoadTensors},
        d \in {<<>>, <<1, 2, 3, 4>>}}

\* a file in the layout GgmlFile::open reads: the metadata count and the
\* entries first, then the tensor count and the tensor records
OpenFile(kvs, raw, tinfos, data, cut) ==
    [Given(MagicBytes, W32(3), W64(Len(tinfos)), W64(Len(kvs)), kvs, raw, tinfos, data,
           cut)
     EXCEPT !.layout = "open"]

\* general.alignment as a u32, and as a string
AlignmentEntries ==
    {Entry(AlignmentKey, Scalar("Uint32", W32(a))) : a \in {0, 4, 7, 8, 64}}
    \cup {Entry(AlignmentKey, Scalar("String", s)) : s \in {<<52>>, <<49, 54>>, <<120>>}}

\* the tensor records of open's files: its five types and one it does not have
OpenTensors ==
    {GivenTensor(<<116>>, <<W64(2), W64(3)>>, W32(id), W64(0)) : id \in 0..5}
    \cup { GivenTensor(<<117>>, <<W64(1)>>, W32(1), W64(40)),
           GivenTensor(<<117>>, <<<<0, 0, 1, 0>>>>, W32(0), W64(8)),
           GivenTensor(<<118>>, <<<<65535, 65535, 0, 0>>, <<65535, 65535, 0, 0>>>>,
                       W32(4), W64(0)),
           GivenTensor(<<119>>, <<W64(2)>>, W32(0), MaxU64) }

AlignmentInputs ==
    {MetadataFile(Len(kvs), kvs, <<>>, -1) :
        kvs \in {<<e>> : e \in AlignmentEntries}
                \cup {<<Entry(<<97>>, Samples[5]), e>> : e \in AlignmentEntries}}

OpenInputs ==
    {OpenFile(kvs, <<>>, ts, <<>>, -1) :
        kvs \in {<<>>} \cup {<<e>> : e \in AlignmentEntries}
                \cup {<<Entry(<<97>>, Samples[5]), e>> : e \in AlignmentEntries},
        ts \in {<<>>} \cup {<<t>> : t \in OpenTensors}}
    \cup {OpenFile(<<e>>, <<>>, <<t, u>>, <<>>, -1) :
            e \in {Entry(AlignmentKey, Scalar("Uint32", W32(a))) : a \in {4, 8}},
            t \in OpenTensors, u \in OpenTensors}
    \cup {OpenFile(AllKinds.kvs, <<>>, <<>>, <<>>, -1)}
    \cup {OpenFile(<<Entry(<<97>>, Samples[i])>>, <<>>, <<>>, <<>>, -1) :
            i \in DOMAIN Samples}
    \cup {OpenFile(<<>>, RawEntries[i], <<>>, <<>>, -1) : i \in DOMAIN RawEntries}
    \cup {OpenFile(<<Entry(AlignmentKey, Scalar("Uint32", W32(8)))>>, <<>>,
                   <<GivenTensor(<<116>>, <<W64(2)>>, W32(0), W64(0))>>, <<>>, cut) :
            cut \in 16..77}

\* array counts that are negative as an i64: -4, -32 and i64::MIN
NegativeCounts == {<<65532, 65535, 65535, 65535>>, <<65504, 65535, 65535, 65535>>,
                   <<0, 0, 0, 32768>>}

\* an array of uint8 (type 0) or of uint16 (type 2) with such a count
SeekEntries ==
    {StringBytes(<<97>>) \o LeBytes(W32(9)) \o LeBytes(W32(t)) \o LeBytes(c) :
        t \in {0, 2}, c \in NegativeCounts}

\* the files of both layouts with such an array as the first of two entries
SeekInputs ==
    {[Given(MagicBytes, W32(3), W64(0), W64(2), <<>>, raw, <<>>, <<>>, -1)
      EXCEPT !.layout = l] : raw \in SeekEntries, l \in {"gguf", "open"}}

\* counts and lengths far beyond the bytes of the file: 1000, 2^40 and 2^63
LargeCounts == {W64(1000), <<0, 0, 256, 0>>, <<0, 0, 0, 32768>>}

\* files declaring such a number of entries, of tensors, of bytes of a key or
\* of a tensor name, of elements of an array (of uint8, and of the one array
\* inside an array of arrays), and 1000 or 2^32 - 1 dimensions
CountInputs ==
    {Given(MagicBytes, W32(3), W64(0), c, <<>>, <<>>, <<>>, <<>>, -1) : c \in LargeCounts}
    \cup {Given(MagicBytes, W32(3), c, W64(0), <<>>, <<>>, <<>>, <<>>, -1) :
            c \in LargeCounts}
    \cup {Given(MagicBytes, W32(3), W64(0), W64(1), <<>>, LeBytes(c) \o <<97>>, <<>>, <<>>,
                 -1) : c \in LargeCounts}
    \cup {Given(MagicBytes, W32(3), W64(1), W64(0), <<>>, LeBytes(c) \o <<116>>, <<>>,
                 <<>>, -1) : c \in LargeCounts}
    \cup {Given(MagicBytes, W32(3), W64(0), W64(1), <<>>,
                 StringBytes(<<97>>) \o LeBytes(W32(9)) \o LeBytes(W32(0)) \o LeBytes(c)
                     \o <<7>>,
                 <<>>, <<>>, -1) : c \in LargeCounts}
    \cup {Given(MagicBytes, W32(3), W64(0), W64(1), <<>>,
                 StringBytes(<<97>>) \o LeBytes(W32(9)) \o LeBytes(W32(9)) \o LeBytes(W64(1))
                     \o LeBytes(W32(0)) \o LeBytes(c) \o <<7>>,
                 <<>>, <<>>, -1) : c \in LargeCounts}
    \cup {Given(MagicBytes, W32(3), W64(1), W64(0), <<>>,
                 StringBytes(<<116>>) \o LeBytes(n) \o LeBytes(W64(2)), <<>>, <<>>, -1) :
            n \in {W32(1000), <<65535, 65535>>}}

Inputs == HeaderInputs \cup BlockInputs \cup SingleInputs \cup {AllKinds}
              \cup MalformedInputs \cup TensorInputs \cup LoadInputs
              \cup AlignmentInputs \cup OpenInputs \cup SeekInputs \cup CountInputs

(***************************************************************************)
(* The state machine.  A run opens one file and calls GgufHeader::parse,   *)
(* GgufReader::read_metadata(reader, header.n_kv) and                      *)
(* TensorLoader::read_tensor_info(reader, header.n_tensors) on it, in that *)
(* order, as the tests and the command line tool do.  The two loops take   *)
(* one step per iteration.                                                 *)
(***************************************************************************)
\* no call of the later ones has been made
Init ==
    /\ given \in Inputs
    /\ src = FileBytes(given)
    /\ pos = 0
    /\ call = "none"
    /\ status = "none"
    /\ err = NoError
    /\ header = NoHeader
    /\ kv_index = 0
    /\ metadata_map = EmptyMap
    /\ tensor_index = 0
    /\ tensors = <<>>
    /\ allocs = {}
    /\ build \in {"debug", "release"}
    /\ data_start = NoStart
    /\ arg = NoArg
    /\ ret = NoRet
    /\ open_alignment = W32(0)
    /\ config = NoConfig
    /\ model = NoModel
    /\ earlier = NoEarlier
    /\ reserved = {}

Result(ok) == IF ok THEN "Ok" ELSE "Err"

Parse ==
    /\ call = "none"
    /\ \E r \in {GgufHeader_parse(pos)} :
           /\ call' = "GgufHeader::parse"
           /\ status' = Result(r.ok)
           /\ err' = r.err
           /\ header' = r.val
           /\ pos' = r.pos
    /\ UNCHANGED <<src, kv_index, metadata_map, tensor_index, tensors, allocs, given,
                   laterVars, reserved>>

\* header.is_version_supported()
IsVersionSupported ==
    /\ call = "GgufHeader::parse"
    /\ status = "Ok"
    /\ call' = "GgufHeader::is_version_supported"
    /\ ret' = is_version_supported(header)
    /\ UNCHANGED <<src, pos, status, err, header, kv_index, metadata_map, tensor_index,
                   tensors, allocs, given, build, data_start, arg, open_alignment,
                   builderVars, earlier, reserved>>

\* GGUFHeader::read, whole: the header, every metadata entry, the alignment
Read ==
    /\ call = "none"
    /\ \E r \in {GGUFHeader_read(pos)} :
           /\ call' = "GGUFHeader::read"
           /\ status' = Result(r.ok)
           /\ err' = r.err
           /\ header' = r.val
           /\ pos' = r.pos
           /\ allocs' = allocs \cup r.allocs
    /\ UNCHANGED <<src, kv_index, metadata_map, tensor_index, tensors, given,
                   laterVars, reserved>>

\* GgmlFile::open, from its start to the metadata count and `alignment = 32`
OpenHeader ==
    /\ call = "none"
    /\ \E r \in {GgmlFile_open_header(pos)} :
           /\ call' = "GgmlFile::open"
           /\ status' = IF r.ok THEN "running" ELSE "Err"
           /\ err' = r.err
           /\ header' = r.val
           /\ pos' = r.pos
           /\ open_alignment' = IF r.ok THEN W32(32) ELSE open_alignment
    /\ UNCHANGED <<src, kv_index, metadata_map, tensor_index, tensors, allocs, given,
                   build, data_start, arg, ret,
                   builderVars, earlier, reserved>>

\* `let mut metadata = HashMap::with_capacity(n_kv as usize)`
ReadMetadataBegin ==
    /\ call = "GgufHeader::parse"
    /\ status = "Ok"
    /\ call' = "GgufReader::read_metadata"
    /\ status' \in alloc_outcomes("running", {}, {header.n_kv})
    /\ reserved' = reserved \cup {header.n_kv}
    /\ metadata_map' = EmptyMap
    /\ kv_index' = 0
    /\ UNCHANGED <<src, pos, err, header, tensor_index, tensors, allocs, given,
                   laterVars>>

ReadMetadataEntry ==
    /\ call = "GgufReader::read_metadata"
    /\ status = "running"
    /\ NatLess(kv_index, header.n_kv)
    /\ \E r \in {read_metadata_entry(pos, metadata_map)},
          caps \in {entry_capacities(pos)} :
           /\ metadata_map' = r.map
           /\ pos' = r.pos
           /\ allocs' = allocs \cup r.allocs
           /\ reserved' = reserved \cup caps
           /\ status' \in alloc_outcomes(IF r.ok THEN "running" ELSE "Err", r.allocs,
                                          caps)
           /\ err' = IF status' = "Err" THEN r.err ELSE NoError
           /\ kv_index' = IF status' = "running" THEN kv_index + 1 ELSE kv_index
    /\ UNCHANGED <<src, call, header, tensor_index, tensors, given,
                   laterVars>>

ReadMetadataReturn ==
    /\ call = "GgufReader::read_metadata"
    /\ status = "running"
    /\ ~NatLess(kv_index, header.n_kv)
    /\ status' = "Ok"
    /\ UNCHANGED <<src, pos, call, err, header, kv_index, metadata_map, tensor_index,
                   tensors, allocs, given,
                   laterVars, reserved>>

\* the tensor list kept from one call to the next
ReadTensorInfoBegin_appending ==
    /\ call = "GgufReader::read_metadata"
    /\ status = "Ok"
    /\ call' = "TensorLoader::read_tensor_info"
    /\ status' \in alloc_outcomes("running", {}, {header.n_tensors})
    /\ reserved' = reserved \cup {header.n_tensors}
    /\ tensors' = tensors
    /\ tensor_index' = 0
    /\ UNCHANGED <<src, pos, err, header, kv_index, metadata_map, allocs, given,
                   laterVars>>

\* `let mut tensors = Vec::with_capacity(n_tensors as usize)`
ReadTensorInfoBegin ==
    /\ call = "GgufReader::read_metadata"
    /\ status = "Ok"
    /\ call' = "TensorLoader::read_tensor_info"
    /\ status' \in alloc_outcomes("running", {}, {header.n_tensors})
    /\ reserved' = reserved \cup {header.n_tensors}
    /\ tensors' = <<>>
    /\ tensor_index' = 0
    /\ UNCHANGED <<src, pos, err, header, kv_index, metadata_map, allocs, given,
                   laterVars>>

ReadTensorInfoEntry ==
    /\ call = "TensorLoader::read_tensor_info"
    /\ status = "running"
    /\ NatLess(tensor_index, header.n_tensors)
    /\ \E r \in {read_tensor_info_entry(pos, tensors)},
          caps \in {info_capacities(pos)} :
           /\ tensors' = r.list
           /\ pos' = r.pos
           /\ allocs' = allocs \cup r.allocs
           /\ reserved' = reserved \cup caps
           /\ status' \in alloc_outcomes(IF r.ok THEN "running" ELSE "Err", r.allocs,
                                          caps)
           /\ err' = IF status' = "Err" THEN r.err ELSE NoError
           /\ tensor_index' = IF status' = "running" THEN tensor_index + 1
                               ELSE tensor_index
    /\ UNCHANGED <<src, call, header, kv_index, metadata_map, given,
                   laterVars>>

ReadTensorInfoReturn ==
    /\ call = "TensorLoader::read_tensor_info"
    /\ status = "running"
    /\ ~NatLess(tensor_index, header.n_tensors)
    /\ status' = "Ok"
    /\ UNCHANGED <<src, pos, call, err, header, kv_index, metadata_map, tensor_index,
                   tensors, allocs, given,
                   laterVars, reserved>>

(***************************************************************************)
(* After read_tensor_info: the caller takes the start of the tensor data   *)
(* and then calls the methods of the descriptors and the loaders, in any   *)
(* order and any number of times.                                          *)
(***************************************************************************)
GetTensorDataStart ==
    /\ call = "TensorLoader::read_tensor_info"
    /\ status = "Ok"
    /\ call' = "TensorLoader::get_tensor_data_start"
    /\ data_start' = W64(pos)
    /\ arg' = NoArg
    /\ ret' = W64(pos)
    /\ UNCHANGED <<src, pos, status, err, header, kv_index, metadata_map, tensor_index,
                   tensors, allocs, given, build, open_alignment,
                   builderVars, earlier, reserved>>

\* the caller holds the descriptors and the start of the tensor data
Loading == data_start # NoStart /\ status \in {"Ok", "Err"}

\* the value of a u64 expression: a panic under overflow checks
Returns(name, i, r) ==
    /\ call' = name
    /\ arg' = [i |-> i, from |-> pos]
    /\ status' = IF r.overflow /\ build = "debug" THEN "Panic" ELSE "Ok"
    /\ ret' = IF r.overflow /\ build = "debug" THEN NoRet ELSE r.val
    /\ err' = NoError
    /\ UNCHANGED <<src, pos, header, kv_index, metadata_map, tensor_index, tensors,
                   allocs, given, build, data_start, open_alignment,
                   builderVars, earlier, reserved>>

ElementCount ==
    /\ Loading
    /\ \E i \in DOMAIN tensors :
           \E r \in {element_count(tensors[i])} :
               Returns("TensorInfo::element_count", i, r)

ByteSize ==
    /\ Loading
    /\ \E i \in DOMAIN tensors :
           \E r \in {byte_size(tensors[i])} :
               Returns("TensorInfo::byte_size", i, r)

IsSupported ==
    /\ Loading
    /\ \E i \in DOMAIN tensors :
           Returns("TensorInfo::is_supported", i, Arith(is_supported(tensors[i]), FALSE))

\* what a loader's call leaves: the reader's position, the buffers, the result
Loaded(name, i, r) ==
    /\ call' = name
    /\ arg' = [i |-> i, from |-> pos]
    /\ status' = r.status
    /\ err' = r.err
    /\ pos' = r.pos
    /\ allocs' = allocs \cup r.allocs
    /\ ret' = r.val
    /\ UNCHANGED <<src, header, kv_index, metadata_map, tensor_index, tensors, given,
                   build, data_start, open_alignment,
                   builderVars, earlier, reserved>>

LoadTensor ==
    /\ Loading
    /\ \E i \in DOMAIN tensors :
           \E r \in load_tensor(pos, tensors[i], data_start) :
               Loaded("TensorLoader::load_tensor", i, r)

LoadAllTensors ==
    /\ Loading
    /\ \E r \in load_all_tensors(pos, tensors, data_start, EmptyMap, {}) :
           Loaded("TensorLoader::load_all_tensors", 0, r)

\* GgmlFile::open: one iteration of the metadata loop
OpenMetadataEntry ==
    /\ call = "GgmlFile::open"
    /\ status = "running"
    /\ "tensor_count" \notin DOMAIN header
    /\ NatLess(kv_index, header.metadata_count)
    /\ \E r \in {open_metadata_entry(pos, open_alignment)} :
           /\ status' = r.status
           /\ err' = r.err
           /\ pos' = r.pos
           /\ open_alignment' = r.alignment
           /\ allocs' = allocs \cup r.allocs
           /\ kv_index' = IF r.status = "running" THEN kv_index + 1 ELSE kv_index
    /\ UNCHANGED <<src, call, header, metadata_map, tensor_index, tensors, given, build,
                   data_start, arg, ret,
                   builderVars, earlier, reserved>>

\* GgmlFile::open: `let tensor_count = cursor.read_u64::<LittleEndian>()?`
OpenTensorCount ==
    /\ call = "GgmlFile::open"
    /\ status = "running"
    /\ "tensor_count" \notin DOMAIN header
    /\ ~NatLess(kv_index, header.metadata_count)
    /\ \E r \in {read_u64_le(pos)} :
           /\ status' = IF r.ok THEN "running" ELSE "Err"
           /\ err' = IF r.ok THEN NoError ELSE GgmlIoError
           /\ pos' = r.pos
           /\ header' = IF r.ok
                        THEN [magic |-> header.magic, version |-> header.version,
                              metadata_count |-> header.metadata_count,
                              tensor_count |-> r.val]
                        ELSE header
    /\ UNCHANGED <<src, call, kv_index, metadata_map, tensor_index, tensors, allocs,
                   given, laterVars, reserved>>

\* GgmlFile::open: one iteration of the tensor loop
OpenTensorEntry ==
    /\ call = "GgmlFile::open"
    /\ status = "running"
    /\ "tensor_count" \in DOMAIN header
    /\ NatLess(tensor_index, header.tensor_count)
    /\ \E r \in {open_tensor_entry(pos, open_alignment, tensors)} :
           /\ status' = r.status
           /\ err' = r.err
           /\ pos' = r.pos
           /\ tensors' = r.list
           /\ allocs' = allocs \cup r.allocs
           /\ tensor_index' = IF r.status = "running" THEN tensor_index + 1
                              ELSE tensor_index
    /\ UNCHANGED <<src, call, header, kv_index, metadata_map, given, laterVars, reserved>>

\* GgmlFile::open: `Ok(GgmlFile { path, mmap, tensors, tensor_map })`
OpenReturn ==
    /\ call = "GgmlFile::open"
    /\ status = "running"
    /\ "tensor_count" \in DOMAIN header
    /\ ~NatLess(tensor_index, header.tensor_count)
    /\ status' = "Ok"
    /\ ret' = GgmlFile(tensors)
    /\ UNCHANGED <<src, pos, call, err, header, kv_index, metadata_map, tensor_index,
                   tensors, allocs, given, build, data_start, arg, open_alignment,
                   builderVars, earlier, reserved>>

\* GgmlFile::tensor_data on a tensor of the opened file
TensorData ==
    /\ \/ call = "GgmlFile::open" /\ status = "Ok"
       \/ call = "GgmlFile::tensor_data" /\ status = "Ok"
    /\ \E i \in DOMAIN tensors :
           \E r \in {tensor_data(tensors[i])} :
               /\ call' = "GgmlFile::tensor_data"
               /\ arg' = [i |-> i, from |-> pos]
               /\ status' = r.status
               /\ ret' = r.val
    /\ UNCHANGED <<src, pos, err, header, kv_index, metadata_map, tensor_index, tensors,
                   allocs, given, build, data_start, open_alignment,
                   builderVars, earlier, reserved>>

Next ==
    \/ Parse
    \/ IsVersionSupported
    \/ Read
    \/ OpenHeader
    \/ OpenMetadataEntry
    \/ OpenTensorCount
    \/ OpenTensorEntry
    \/ OpenReturn
    \/ TensorData
    \/ ReadMetadataBegin
    \/ ReadMetadataEntry
    \/ ReadMetadataReturn
    \/ ReadTensorInfoBegin
    \/ ReadTensorInfoEntry
    \/ ReadTensorInfoReturn
    \/ GetTensorDataStart
    \/ ElementCount
    \/ ByteSize
    \/ IsSupported
    \/ LoadTensor
    \/ LoadAllTensors

Spec == Init /\ [][Next]_vars

(***************************************************************************)
(* What the properties below speak of.                                     *)
(***************************************************************************)
HeaderDecoders == {"GgufHeader::parse", "GGUFHeader::read", "GgmlFile::open"}

\* the invalid-magic error of each decoder
InvalidMagicErrors ==
    { Error("GgufError::InvalidFormat", "Invalid magic number"),
      Error("GGUFError::InvalidMagic", ""),
      Error("GgmlError::InvalidMagic", "") }

\* a header decoder has just run on a source of at least 24 bytes
HeaderDecoded == call \in HeaderDecoders /\ Len(src) >= 24

MagicMatches == SubSeq(src, 1, 4) = MagicBytes

\* the source is the whole encoding of the entries given.kvs, and nothing else
EncodedBlock ==
    /\ given.layout = "gguf"
    /\ given.raw = <<>>
    /\ given.cut < 0
    /\ given.n_kv = W64(Len(given.kvs))

DistinctKeys(kvs) ==
    \A i, j \in DOMAIN kvs : kvs[i].key = kvs[j].key => i = j

KeysOf(kvs) == {kvs[i].key : i \in DOMAIN kvs}

\* entry i is the last one of its key
IsLast(kvs, i) == \A j \in DOMAIN kvs : kvs[j].key = kvs[i].key => j <= i

\* an array one of whose elements is an array
Nested(value) ==
    /\ value.t = "Array"
    /\ \E i \in DOMAIN value.v : value.v[i].t = "Array"

\* the descriptor a tensor record of the file stands for
Described(t) ==
    TensorInfo(t.name, W32(Len(t.dims)), t.dims, TensorTypes[t.type_id[1] + 1], t.offset)

(***************************************************************************)
(* C1: on a source of at least 24 bytes a header decoder fails with its    *)
(* invalid-magic error exactly when the first four bytes are not "GGUF";   *)
(* the sources include every single-bit flip of the four magic bytes.      *)
(***************************************************************************)
C1_InvalidMagicIffMagicDiffers ==
    HeaderDecoded =>
        ((status = "Err" /\ err \in InvalidMagicErrors) <=> ~MagicMatches)

\* GgufHeader::parse has rejected a header whose magic has one bit flipped
C1_Witness ==
    /\ HeaderDecoded
    /\ call = "GgufHeader::parse"
    /\ \E k \in 0..31 : SubSeq(src, 1, 4) = FlipBit(MagicBytes, k)
    /\ status = "Err"
    /\ err \in InvalidMagicErrors

(***************************************************************************)
(* C2: once the magic matches and 24 bytes are there, a header decoder     *)
(* never fails because of the version: no unsupported-version error, and   *)
(* GgufHeader::parse, which decodes the header and nothing else, succeeds  *)
(* and returns the version of the file.                                    *)
(***************************************************************************)
C2_EveryVersionDecodes ==
    (HeaderDecoded /\ MagicMatches) =>
        /\ err.kind \notin {"GGUFError::UnsupportedVersion", "GgmlError::UnsupportedVersion"}
        /\ call = "GgufHeader::parse" =>
               (status = "Ok" /\ header.version = given.version)

(***************************************************************************)
(* C3: a successful header decode has read magic, version, tensor count    *)
(* and key/value count in that order: the cursor is at byte 24, bytes 8-15 *)
(* are the tensor count and bytes 16-23 the key/value count.               *)
(***************************************************************************)
C3_HeaderIs24Bytes ==
    /\ (call = "GgufHeader::parse" /\ status = "Ok") =>
           /\ pos = 24
           /\ header.version = given.version
           /\ header.n_tensors = given.n_tensors
           /\ header.n_kv = given.n_kv
    /\ (call = "GgmlFile::open" /\ status = "running") =>
           /\ pos = 24
           /\ header.version = given.version
           /\ header.metadata_count = given.n_kv

(***************************************************************************)
(* C4: read_metadata on the encoding of entries with distinct keys does    *)
(* not fail, and returns the mapping of exactly these keys to exactly      *)
(* these values, arrays element for element.                               *)
(***************************************************************************)
C4_RoundTrip ==
    (call = "GgufReader::read_metadata" /\ EncodedBlock /\ DistinctKeys(given.kvs)) =>
        /\ status # "Err"
        /\ status = "Ok" =>
               /\ DOMAIN metadata_map = KeysOf(given.kvs)
               /\ \A i \in DOMAIN given.kvs :
                      metadata_map[given.kvs[i].key] = given.kvs[i].value

\* the block with a value of every kind, arrays among them, has been decoded
C4_Witness ==
    /\ call = "GgufReader::read_metadata"
    /\ status = "Ok"
    /\ given = AllKinds
    /\ {ValueTypes[i] : i \in 1..13} = {given.kvs[i].value.t : i \in DOMAIN given.kvs}
    /\ Cardinality(DOMAIN metadata_map) = Len(Samples)

(***************************************************************************)
(* C5: no decoded value is an array whose elements are arrays.             *)
(***************************************************************************)
C5_OneLevelOfNesting ==
    \A k \in DOMAIN metadata_map : ~Nested(metadata_map[k])

(***************************************************************************)
(* C6: when the entry that fails holds an unknown type id, as its value    *)
(* type or as the element type of its array, read_metadata fails with      *)
(* GgufError::Unsupported.                                                 *)
(***************************************************************************)
C6_UnknownTypeIsUnsupported ==
    (/\ call = "GgufReader::read_metadata"
     /\ status = "Err"
     /\ given.raw \in {RawEntries[1], RawEntries[2], RawEntries[3]}) =>
        err.kind = "GgufError::Unsupported"

(***************************************************************************)
(* C7: when the source ends inside a metadata entry, read_metadata fails   *)
(* with GgufError::Io.                                                     *)
(***************************************************************************)
C7_TruncationIsIo ==
    (/\ call = "GgufReader::read_metadata"
     /\ status = "Err"
     /\ given.kvs # <<>>
     /\ given.cut >= 24) =>
        err.kind = "GgufError::Io"

(***************************************************************************)
(* C8: no buffer is requested for a key or a string whose declared length  *)
(* exceeds 1 MiB.                                                          *)
(***************************************************************************)
C8_NoBufferAboveOneMiB ==
    \A len \in allocs : ~WLess(MiB, len)

(***************************************************************************)
(* C9: after read_metadata on a block in which keys may repeat, the        *)
(* mapping has one entry per distinct key, and each key has the value of   *)
(* its last entry in the file.                                             *)
(***************************************************************************)
C9_LastOccurrenceWins ==
    (call = "GgufReader::read_metadata" /\ status = "Ok" /\ EncodedBlock) =>
        /\ DOMAIN metadata_map = KeysOf(given.kvs)
        /\ Cardinality(DOMAIN metadata_map) = Cardinality(KeysOf(given.kvs))
        /\ \A i \in DOMAIN given.kvs :
               IsLast(given.kvs, i) =>
                   metadata_map[given.kvs[i].key] = given.kvs[i].value

\* a key given twice, with two values, has been decoded to one entry
C9_Witness ==
    /\ call = "GgufReader::read_metadata"
    /\ status = "Ok"
    /\ EncodedBlock
    /\ Len(given.kvs) = 2
    /\ given.kvs[1].key = given.kvs[2].key
    /\ given.kvs[1].value # given.kvs[2].value
    /\ Cardinality(DOMAIN metadata_map) = 1
    /\ kv_index = 2

(***************************************************************************)
(* C10: a successful read_tensor_info(reader, header.n_tensors) returns    *)
(* header.n_tensors descriptors, the i-th being the i-th record of the     *)
(* file.                                                                   *)
(***************************************************************************)
C10_OneDescriptorPerRecord ==
    (call = "TensorLoader::read_tensor_info" /\ status = "Ok") =>
        /\ W64(Len(tensors)) = header.n_tensors
        /\ (given.cut < 0 /\ given.layout = "gguf") =>
               /\ Len(tensors) = Len(given.tinfos)
               /\ \A i \in DOMAIN tensors : tensors[i] = Described(given.tinfos[i])

\* two different records have been read
C10_Witness ==
    /\ call = "TensorLoader::read_tensor_info"
    /\ given.layout = "gguf"
    /\ status = "Ok"
    /\ Len(tensors) = 2
    /\ tensors[1].name # tensors[2].name
    /\ tensors[1] = Described(given.tinfos[1])

\* the type ids of the registry
Registry == {W32(n) : n \in (0..3) \cup (6..29)}

\* the type ids of the registry that have an element size
Loadable == {W32(n) : n \in {0, 1, 24, 25, 26, 27, 28}}

(***************************************************************************)
(* C11: read_tensor_info ends with GgufError::Unsupported exactly when a   *)
(* record of the file has a type id outside the registry; a record of a    *)
(* quantized type of the registry is decoded like any other.               *)
(***************************************************************************)
C11_UnknownTypeIffNotInRegistry ==
    (/\ call = "TensorLoader::read_tensor_info"
     /\ status \in {"Ok", "Err"}
     /\ given.layout = "gguf") =>
        ((status = "Err" /\ err.kind = "GgufError::Unsupported")
            <=> \E i \in DOMAIN given.tinfos : given.tinfos[i].type_id \notin Registry)

\* a record of a quantized type has been decoded
C11_Witness ==
    /\ call = "TensorLoader::read_tensor_info"
    /\ status = "Ok"
    /\ Len(tensors) = 1
    /\ given.tinfos[1].type_id \in Registry \ Loadable
    /\ tensors[1].tensor_type = "Q4K"

(***************************************************************************)
(* C12: every descriptor read_tensor_info returns has a name of 1 to 64    *)
(* bytes; a record with another name makes it fail.                        *)
(***************************************************************************)
C12_NameOf1To64Bytes ==
    (call = "TensorLoader::read_tensor_info" /\ status = "Ok") =>
        \A i \in DOMAIN tensors :
            Len(tensors[i].name) >= 1 /\ Len(tensors[i].name) <= 64

\* the bytes of a number of any size, without its high zero bytes
RECURSIVE Strip(_)
Strip(b) ==
    IF b # <<>> /\ b[Len(b)] = 0 THEN Strip(SubSeq(b, 1, Len(b) - 1)) ELSE b

\* the product of two numbers of any size
Times(a, b) ==
    Let(a, LAMBDA x : Let(b, LAMBDA y : Strip(WideMul(x, y))))

\* the product of the dimensions as a number of any size, 1 for no dimension
RECURSIVE MathProduct(_)
MathProduct(dims) ==
    IF dims = <<>> THEN <<1>>
    ELSE Times(Strip(LeBytes(dims[1])), MathProduct(Tail(dims)))

\* the size of an element of the types that have one
ElementSizes ==
    [F32 |-> 4, F16 |-> 2, I8 |-> 1, I16 |-> 2, I32 |-> 4, I64 |-> 8, F64 |-> 8]

\* the number of bytes of a tensor of such a type, as a number of any size
MathSize(t) == Times(MathProduct(t.dims), <<ElementSizes[t.tensor_type]>>)

\* a number of any size below 2^24 as an integer
SmallNat(b) == IF b = <<>> THEN 0 ELSE U16FromLe(SubSeq(b \o <<0, 0>>, 1, 2))
                                      + Half * (b \o <<0, 0>>)[3]

\* the descriptor the last call was about
Subject == tensors[arg.i]

\* [data_start + offset, data_start + offset + size) lies inside the source
RangeInside(t) ==
    /\ IsSmall(t.offset)
    /\ ToNat(t.offset) <= Len(src)
    /\ ToNat(data_start) + ToNat(t.offset) <= Len(src)
    /\ Len(MathSize(t)) <= 3
    /\ SmallNat(MathSize(t)) <= Len(src) - (ToNat(data_start) + ToNat(t.offset))

\* the bytes of that range
RangeBytes(t) ==
    SubSeq(src, ToNat(data_start) + ToNat(t.offset) + 1,
           ToNat(data_start) + ToNat(t.offset) + SmallNat(MathSize(t)))

(***************************************************************************)
(* C13: element_count returns the product of the dimensions (1 for none)   *)
(* and byte_size returns that product times the size of an element of the  *)
(* type, whatever the dimensions are.                                      *)
(***************************************************************************)
C13_CountsAreProducts ==
    /\ call = "TensorInfo::element_count" =>
           /\ status = "Ok"
           /\ Strip(LeBytes(ret)) = MathProduct(Subject.dims)
    /\ (call = "TensorInfo::byte_size" /\ Subject.tensor_type \in DOMAIN ElementSizes) =>
           /\ status = "Ok"
           /\ Strip(LeBytes(ret)) = MathSize(Subject)

(***************************************************************************)
(* C14: for a descriptor of a quantized type byte_size returns 0,          *)
(* is_supported returns false, and load_tensor fails with Unsupported and  *)
(* leaves the reader where it was, with nothing read.                      *)
(***************************************************************************)
C14_QuantizedIsNotLoaded ==
    (/\ call \in {"TensorInfo::byte_size", "TensorInfo::is_supported",
                   "TensorLoader::load_tensor"}
     /\ arg.i \in DOMAIN tensors
     /\ Subject.tensor_type \notin DOMAIN ElementSizes) =>
        /\ call = "TensorInfo::byte_size" => status = "Ok" /\ ret = W64(0)
        /\ call = "TensorInfo::is_supported" => status = "Ok" /\ ret = FALSE
        /\ call = "TensorLoader::load_tensor" =>
               /\ status = "Err"
               /\ err.kind = "GgufError::Unsupported"
               /\ pos = arg.from
               /\ ret = NoRet

(***************************************************************************)
(* C15: get_tensor_data_start returns the position after the last          *)
(* descriptor, and load_tensor of a descriptor of a supported type whose   *)
(* range lies inside the source returns Ok with exactly the bytes of the   *)
(* range, wherever the reader was.                                         *)
(***************************************************************************)
C15_LoadsTheRange ==
    /\ (call = "TensorLoader::get_tensor_data_start" /\ given.layout = "gguf") =>
           ret = W64(Len(src) - Len(given.data))
    /\ (/\ call = "TensorLoader::load_tensor"
        /\ Subject.tensor_type \in DOMAIN ElementSizes
        /\ RangeInside(Subject)) =>
           /\ status = "Ok"
           /\ ret = Tensor(Subject, RangeBytes(Subject))

(***************************************************************************)
(* C16: load_tensor of a descriptor of a supported type whose range does   *)
(* not lie inside the source returns an error and no bytes.                *)
(***************************************************************************)
C16_OutsideTheSourceIsAnError ==
    (/\ call = "TensorLoader::load_tensor"
     /\ Subject.tensor_type \in DOMAIN ElementSizes
     /\ ~RangeInside(Subject)) =>
        /\ status = "Err"
        /\ ret = NoRet

\* the descriptors load_tensor returns Ok for
Loadable_at(i) == \E r \in load_tensor(0, tensors[i], data_start) : r.status = "Ok"

(***************************************************************************)
(* C17: load_all_tensors returns Ok with a map whose keys are the names of *)
(* the descriptors load_tensor succeeds for, each with the tensor          *)
(* load_tensor returns, whatever descriptors come before them.             *)
(***************************************************************************)
C17_LoadAllReturnsOk ==
    call = "TensorLoader::load_all_tensors" =>
        /\ status = "Ok"
        /\ DOMAIN ret = {tensors[i].name : i \in {j \in DOMAIN tensors : Loadable_at(j)}}
        /\ \A i \in DOMAIN tensors :
               Loadable_at(i) =>
                   \E j \in DOMAIN tensors :
                       /\ tensors[j].name = tensors[i].name
                       /\ ret[tensors[i].name] \in
                              {r.val : r \in load_tensor(0, tensors[j], data_start)}

\* the decoders that take the alignment from the metadata, each with the
\* layout of the files it reads
AlignmentDecoders == [gguf |-> "GGUFHeader::read", open |-> "GgmlFile::open"]

\* the alignment the decoder has kept
KeptAlignment ==
    IF call = "GGUFHeader::read" THEN header.alignment ELSE open_alignment

\* the file is whole, of version 3, its values are u32, and it declares
\* general.alignment at most once
DeclaresAlignment ==
    /\ given.magic = MagicBytes
    /\ given.version = W32(3)
    /\ given.cut < 0
    /\ given.raw = <<>>
    /\ given.n_kv = W64(Len(given.kvs))
    /\ \A i, j \in DOMAIN given.kvs :
           /\ given.kvs[i].value.t = "Uint32"
           /\ given.kvs[i].key = given.kvs[j].key => i = j

(***************************************************************************)
(* C18: a decoder that takes the alignment from the metadata fails with    *)
(* InvalidAlignment when the file declares general.alignment below 8,      *)
(* succeeds with the declared value when it is 8 or more, and succeeds     *)
(* with 32 when the file does not declare it.                              *)
(***************************************************************************)
C18_AlignmentIsChecked ==
    (/\ call = AlignmentDecoders[given.layout]
     /\ status \in {"Ok", "Err", "Panic"}
     /\ DeclaresAlignment
     /\ \A i \in DOMAIN given.tinfos : given.tinfos[i].type_id \in {W32(0), W32(1)}) =>
        IF \E i \in DOMAIN given.kvs : given.kvs[i].key = AlignmentKey
        THEN \A i \in DOMAIN given.kvs :
                 given.kvs[i].key = AlignmentKey =>
                     IF given.kvs[i].value.v[2] = 0 /\ given.kvs[i].value.v[1] < 8
                     THEN /\ status = "Err"
                          /\ err.kind \in {"GGUFError::InvalidAlignment",
                                           "GgmlError::InvalidAlignment"}
                     ELSE /\ status = "Ok"
                          /\ KeptAlignment = given.kvs[i].value.v
        ELSE /\ status = "Ok"
             /\ KeptAlignment = W32(32)

(***************************************************************************)
(* extract_model_config (config.rs) over metadata maps: the architecture   *)
(* "q", each of its keys absent or holding a value of some kind.           *)
(***************************************************************************)
\* "q"
Arch == <<113>>

ConfigMap(architecture, required, optional) ==
    LET pairs == {<<ArchitectureKey, architecture>>}
                 \cup {<<Arch \o RequiredSuffixes[n], required[n]>> : n \in 1..5}
                 \cup {<<Arch \o OptionalSuffixes[n], optional[n]>> : n \in 1..4}
        present == {p \in pairs : p[2].t # NoValue.t}
    IN  [k \in {p[1] : p \in present} |-> (CHOOSE p \in present : p[1] = k)[2]]

ArchString == Scalar("String", Arch)

AllRequired == [n \in 1..5 |-> Scalar("Uint32", W32(10 + n))]

NoOptional == [n \in 1..4 |-> NoValue]

\* the architecture and each required key: absent, right, or of a wrong kind
RequiredMaps ==
    {ConfigMap(a, r, NoOptional) :
        a \in {NoValue, ArchString, Scalar("Uint32", W32(1))},
        r \in [1..5 -> {NoValue, Scalar("Uint32", W32(7)), Scalar("Int32", 7)}]}

\* one required key holding a value of each kind
KindMaps ==
    {ConfigMap(ArchString, [AllRequired EXCEPT ![n] = Samples[i]], NoOptional) :
        n \in 1..5, i \in 1..Len(Samples)}

OptionalInts ==
    {NoValue, Scalar("Uint8", 200), Scalar("Uint64", <<1, 0, 1, 0>>),
     Scalar("Int64", <<8, 0, 0, 0>>)}

\* 1.0 and the largest f32 as f32; as f64: 1e-5, 1e300, 1e-40, 1 + 2^-24,
\* 1e6; and an integer where a float is expected
OptionalFloats ==
    {NoValue, Scalar("Float32", <<0, 16256>>), Scalar("Float32", <<65535, 32639>>),
     Scalar("Float64", <<26865, 35043, 63669, 16100>>),
     Scalar("Float64", <<30108, 34816, 58428, 32311>>),
     Scalar("Float64", <<22428, 10103, 27686, 14241>>),
     Scalar("Float64", <<0, 4096, 0, 16368>>),
     Scalar("Float64", <<0, 0, 33920, 16686>>),
     Scalar("Uint32", W32(10000))}

OptionalMaps ==
    {ConfigMap(ArchString, AllRequired, <<a, b, c, d>>) :
        a \in OptionalInts, b \in {NoValue, Scalar("Uint16", 128), Scalar("Bool", TRUE)},
        c \in OptionalFloats, d \in OptionalFloats}

\* optional keys next to a required key that is missing
MixedMaps ==
    {ConfigMap(ArchString, [AllRequired EXCEPT ![n] = NoValue],
               <<a, NoValue, c, NoValue>>) :
        n \in 1..5, a \in OptionalInts, c \in {NoValue, Scalar("Float32", <<0, 16256>>)}}

\* one optional integer key holding a value of each kind
OptionalKindMaps ==
    {ConfigMap(ArchString, AllRequired,
               [NoOptional EXCEPT ![n] = Samples[i]]) : n \in 1..2, i \in 1..Len(Samples)}

ConfigMaps == RequiredMaps \cup KindMaps \cup OptionalMaps \cup MixedMaps \cup OptionalKindMaps

InitConfig ==
    /\ metadata_map \in ConfigMaps
    /\ given = MetadataFile(0, <<>>, <<>>, -1)
    /\ src = <<>>
    /\ pos = 0
    /\ call = "none"
    /\ status = "none"
    /\ err = NoError
    /\ header = NoHeader
    /\ kv_index = 0
    /\ tensor_index = 0
    /\ tensors = <<>>
    /\ allocs = {}
    /\ build \in {"debug", "release"}
    /\ data_start = NoStart
    /\ arg = NoArg
    /\ ret = NoRet
    /\ open_alignment = W32(0)
    /\ config = NoConfig
    /\ model = NoModel
    /\ earlier = NoEarlier
    /\ reserved = {}

\* extract_model_config(&metadata)
ExtractModelConfig ==
    /\ call \in {"none", "HashMap::insert"}
    /\ \E r \in {extract_model_config(metadata_map)} :
          /\ status' = Result(r.ok)
          /\ err' = r.err
          /\ ret' = r.val
    /\ call' = "extract_model_config"
    /\ UNCHANGED <<src, pos, header, kv_index, metadata_map, tensor_index, tensors,
                   allocs, given, build, data_start, arg, open_alignment,
                   builderVars, earlier, reserved>>

\* the key a missing-field error names
NamedKey(e) == SubSeq(e.msg, Len(MissingOrInvalid) + 1, Len(e.msg))

\* the caller adds the key the error names, as a uint32
InsertField ==
    /\ call = "extract_model_config"
    /\ status = "Err"
    /\ Len(err.msg) > Len(MissingOrInvalid)
    /\ SubSeq(err.msg, 1, Len(MissingOrInvalid)) = MissingOrInvalid
    /\ metadata_map' = Insert(metadata_map, NamedKey(err), Scalar("Uint32", W32(7)))
    /\ call' = "HashMap::insert"
    /\ UNCHANGED <<src, pos, status, err, header, kv_index, tensor_index, tensors,
                   allocs, given, build, data_start, arg, ret, open_alignment,
                   builderVars, earlier, reserved>>

NextConfig ==
    \/ ExtractModelConfig
    \/ InsertField

SpecConfig == InitConfig /\ [][NextConfig]_vars

(***************************************************************************)
(* What the metadata says, read off the map itself.                        *)
(***************************************************************************)
UnsignedKinds == {"Uint8", "Uint16", "Uint32", "Uint64"}

ArchIsString ==
    ArchitectureKey \in DOMAIN metadata_map /\ metadata_map[ArchitectureKey].t = "String"

RequiredKey(n) == metadata_map[ArchitectureKey].v \o RequiredSuffixes[n]

OptionalKey(n) == metadata_map[ArchitectureKey].v \o OptionalSuffixes[n]

IsNumeric(key) == key \in DOMAIN metadata_map /\ metadata_map[key].t \in UnsignedKinds

IsFloat(key) == key \in DOMAIN metadata_map /\ metadata_map[key].t \in {"Float32", "Float64"}

\* the low 32 bits of an unsigned value
Low32(value) ==
    IF value.t \in {"Uint8", "Uint16"} THEN W32(value.v) ELSE <<value.v[1], value.v[2]>>

\* the f32 nearest to each f64 above (ties to even, beyond the range infinity)
NearestF32 ==
    {<< <<26865, 35043, 63669, 16100>>, <<50604, 14119>> >>,
     << <<30108, 34816, 58428, 32311>>, <<0, 32640>> >>,
     << <<22428, 10103, 27686, 14241>>, <<5826, 1>> >>,
     << <<0, 4096, 0, 16368>>, <<0, 16256>> >>,
     << <<0, 0, 33920, 16686>>, <<9216, 18804>> >>,
     << <<0, 0, 0, 16368>>, <<0, 16256>> >>}

AsF32(value) ==
    IF value.t = "Float32" THEN value.v
    ELSE (CHOOSE p \in NearestF32 : p[1] = value.v)[2]

AllNumeric == \A n \in 1..5 : IsNumeric(RequiredKey(n))

FirstBad == CHOOSE n \in 1..5 : ~IsNumeric(RequiredKey(n))
                                /\ \A j \in 1..(n - 1) : IsNumeric(RequiredKey(j))

RequiredOf(cfg) ==
    <<cfg.block_count, cfg.context_length, cfg.embedding_length,
      cfg.feed_forward_length, cfg.attention_head_count>>

ExtractState ==
    IF call # "extract_model_config" THEN "other"
    ELSE IF ~ArchIsString THEN "no architecture"
    ELSE IF AllNumeric THEN "complete" ELSE "incomplete"

C19_State ==
    CASE ExtractState = "no architecture" ->
            /\ status = "Err"
            /\ err = Error("GgufError::InvalidFormat", MissingArchitecture)
      [] ExtractState = "complete" ->
            /\ status = "Ok"
            /\ ret.architecture = metadata_map[ArchitectureKey].v
            /\ RequiredOf(ret) = [n \in 1..5 |-> Low32(metadata_map[RequiredKey(n)])]
      [] ExtractState = "incomplete" ->
            /\ status = "Err"
            /\ err = Error("GgufError::InvalidFormat",
                           MissingOrInvalid \o RequiredKey(FirstBad))
      [] OTHER -> TRUE

C19_Step ==
    (call = "HashMap::insert" /\ call' = "extract_model_config" /\ status' = "Err")
        => /\ IsNumeric(NamedKey(err))
           /\ err'.msg # err.msg

\* the kinds of the value model that hold a number
NumberKinds ==
    UnsignedKinds \cup {"Int8", "Int16", "Int32", "Int64", "Float32", "Float64"}

IsNumber(key) == key \in DOMAIN metadata_map /\ metadata_map[key].t \in NumberKinds

FirstNotNumber == CHOOSE n \in 1..5 : ~IsNumber(RequiredKey(n))
                                      /\ \A j \in 1..(n - 1) : IsNumber(RequiredKey(j))

\* C19 with "numeric" taken as any kind that holds a number: Ok whenever the
\* five required keys hold numbers, and otherwise an error naming the first
\* key that is absent or holds no number.
C19_AnyNumberSucceeds ==
    (call = "extract_model_config" /\ ArchIsString) =>
        IF \A n \in 1..5 : IsNumber(RequiredKey(n))
        THEN status = "Ok"
        ELSE /\ status = "Err"
             /\ err.msg = MissingOrInvalid \o RequiredKey(FirstNotNumber)

\* C19: extract_model_config returns Ok, with general.architecture and the
\* five required fields narrowed to 32 bits, exactly when general.architecture
\* is a string and each of <arch>.block_count, .context_length,
\* .embedding_length, .feed_forward_length and .attention.head_count is
\* present as an unsigned integer; otherwise it fails with InvalidFormat
\* naming the first of them, in that order, that is absent or not an unsigned
\* integer (general.architecture itself when that is absent or not a string),
\* and once that key is added the failure no longer names it.
C19_RequiredFields == []C19_State /\ [][C19_Step]_vars

\* the third required key is the one named: the two before it are fine, and
\* it holds a signed integer
C19_Witness ==
    /\ call = "extract_model_config"
    /\ ArchIsString
    /\ status = "Err"
    /\ err.msg = MissingOrInvalid \o Arch \o RequiredSuffixes[3]
    /\ IsNumeric(RequiredKey(1)) /\ IsNumeric(RequiredKey(2))
    /\ RequiredKey(3) \in DOMAIN metadata_map
    /\ metadata_map[RequiredKey(3)].t = "Int32"
    /\ ~IsNumeric(RequiredKey(5))

OptionalU32(key) == IF IsNumeric(key) THEN Some(Low32(metadata_map[key])) ELSE None

OptionalF32(key) == IF IsFloat(key) THEN Some(AsF32(metadata_map[key])) ELSE None

\* C20: the four optional fields never make extract_model_config fail: with
\* the required fields in place it returns Ok, where
\* <arch>.attention.head_count_kv and .attention.key_length are present (as
\* the low 32 bits) exactly when the key holds an unsigned integer, and
\* .attention.layer_norm_rms_epsilon and .rope.freq_base are present (as the
\* nearest f32) exactly when the key holds a float of either width; a key
\* that is missing or of another kind gives an absent field, and no error
\* names an optional key.
C20_OptionalFields ==
    /\ ExtractState = "complete" =>
          /\ status = "Ok"
          /\ ret.attention_head_count_kv = OptionalU32(OptionalKey(1))
          /\ ret.attention_key_length = OptionalU32(OptionalKey(2))
          /\ ret.layer_norm_epsilon = OptionalF32(OptionalKey(3))
          /\ ret.rope_freq_base = OptionalF32(OptionalKey(4))
    /\ ExtractState = "incomplete" =>
          /\ status = "Err"
          /\ \A n \in 1..4 : err.msg # MissingOrInvalid \o OptionalKey(n)

\* a wide integer narrowed, a key of the wrong kind left out, a double
\* rounded to the nearest f32 and an f32 passed through
C20_Witness ==
    /\ ExtractState = "complete"
    /\ status = "Ok"
    /\ IsNumeric(OptionalKey(1))
    /\ metadata_map[OptionalKey(1)].t = "Uint64"
    /\ metadata_map[OptionalKey(1)].v = <<1, 0, 1, 0>>
    /\ ret.attention_head_count_kv = Some(W32(1))
    /\ OptionalKey(2) \in DOMAIN metadata_map
    /\ metadata_map[OptionalKey(2)].t = "Bool"
    /\ ret.attention_key_length = None
    /\ IsFloat(OptionalKey(3))
    /\ metadata_map[OptionalKey(3)].t = "Float64"
    /\ metadata_map[OptionalKey(3)].v = <<26865, 35043, 63669, 16100>>
    /\ ret.layer_norm_epsilon = Some(<<50604, 14119>>)
    /\ IsFloat(OptionalKey(4))
    /\ metadata_map[OptionalKey(4)].t = "Float32"
    /\ metadata_map[OptionalKey(4)].v = <<65535, 32639>>
    /\ ret.rope_freq_base = Some(<<65535, 32639>>)

\* the keys of the integer fields: the five required and the first two optional
IntegerKeys ==
    [n \in 1..7 |-> IF n <= 5 THEN RequiredKey(n) ELSE OptionalKey(n - 5)]

\* what the configuration holds for them, an absent optional field as None
IntegerFields(cfg) ==
    [n \in 1..7 |-> IF n <= 5 THEN Some(RequiredOf(cfg)[n])
                    ELSE IF n = 6 THEN cfg.attention_head_count_kv
                    ELSE cfg.attention_key_length]

\* a value of an unsigned kind modulo 2^32, from its little-endian bytes
Mod2To32(value) ==
    LET bytes == PayloadBytes(value) \o <<0, 0, 0>>
    IN  <<bytes[1] + 256 * bytes[2], bytes[3] + 256 * bytes[4]>>

\* C21: an integer field of the configuration accepts a value of any
\* unsigned width (8, 16, 32 or 64 bits) and holds it modulo 2^32; a value
\* of any other kind (signed, float, bool, string, array) is not accepted:
\* under a required key it makes extract_model_config fail, under an
\* optional key it leaves the field absent.
C21_UnsignedNarrowedTo32Bits ==
    (call = "extract_model_config" /\ ArchIsString) =>
        \A n \in 1..7 :
            IntegerKeys[n] \in DOMAIN metadata_map =>
                IF metadata_map[IntegerKeys[n]].t \in UnsignedKinds
                THEN status = "Ok" =>
                         IntegerFields(ret)[n] = Some(Mod2To32(metadata_map[IntegerKeys[n]]))
                ELSE IF n <= 5 THEN status = "Err"
                ELSE status = "Ok" => IntegerFields(ret)[n] = None

\* a 64-bit value above 2^32 under a required key, narrowed
C21_Witness ==
    /\ ExtractState = "complete"
    /\ status = "Ok"
    /\ \E n \in 1..5 :
           /\ metadata_map[RequiredKey(n)].t = "Uint64"
           /\ metadata_map[RequiredKey(n)].v = <<1, 2, 3, 4>>
           /\ RequiredOf(ret)[n] = <<1, 2>>

(***************************************************************************)
(* ModelBuilder over tensor mappings: the tensors of up to MaxBlocks       *)
(* blocks with up to two of them left out, with and without entries that   *)
(* belong to no slot, and a few larger block counts.                       *)
(***************************************************************************)
MaxBlocks == 2

\* the number of a block as it is written in a tensor name
Written(i) == IF i < 10 THEN <<48 + i>> ELSE <<48 + (i \div 10), 48 + (i % 10)>>

\* "blk.<i><suffix of the n-th slot>"
BlockName(i, n) == <<98, 108, 107, 46>> \o Written(i) \o BlockSlots[n].suffix

SlotNames(block_count) ==
    {TokenEmbd, OutputWeight, OutputNorm}
    \cup {BlockName(i, n) : i \in 0..(block_count - 1), n \in 1..Len(BlockSlots)}

\* names of no slot: a block past the last, "blk.00.attn_q.weight" and "x"
StrayNames(block_count) ==
    {BlockName(block_count, 1),
     <<98, 108, 107, 46, 48, 48>> \o BlockSlots[1].suffix,
     <<120>>}

\* a tensor whose bytes are the name it is stored under
Stored(name, dims) ==
    Tensor(TensorInfo(<<116>>, W32(Len(dims)), dims, "F32", W64(0)), name)

Mapping(names, dims) ==
    [k \in names |-> Stored(k, IF k = TokenEmbd THEN dims ELSE <<W64(2), W64(3)>>)]

ConfigOf(block_count) ==
    ModelConfig(Arch, <<block_count, W32(8), W32(4), W32(16), W32(2)>>,
                <<None, None, None, None>>)

Builder(self_tensors, self_config) == [tensors |-> self_tensors, config |-> self_config]

AtMostTwo(S) == {{}} \cup {{a, b} : a, b \in S}

SmallBuilders ==
    {Builder(Mapping((SlotNames(n) \ S) \cup stray, <<W64(4), W64(7)>>), ConfigOf(W32(n))) :
        n \in 0..MaxBlocks, S \in AtMostTwo(SlotNames(MaxBlocks)),
        stray \in {{}} \cup {StrayNames(k) : k \in 0..MaxBlocks}}

\* token embeddings of two, one, no and three dimensions
EmbeddingDims ==
    {<<W64(4), W64(7)>>, <<W64(5), W64(5)>>, <<W64(3)>>, <<>>,
     <<W64(2), W64(3), W64(4)>>}

ShapedBuilders ==
    {Builder(Mapping(SlotNames(1), dims), ConfigOf(W32(1))) : dims \in EmbeddingDims}

\* eleven blocks, and a block count no mapping can fill
LargeBuilders ==
    {Builder(Mapping(SlotNames(11) \ S, <<W64(4), W64(7)>>), ConfigOf(W32(11))) :
        S \in {{}, {BlockName(10, 10)}, {BlockName(9, 1)}, {BlockName(1, 2)}}}
    \cup {Builder(Mapping(SlotNames(1), <<W64(4), W64(7)>>), ConfigOf(<<65535, 65535>>))}

Builders == SmallBuilders \cup ShapedBuilders \cup LargeBuilders

\* ModelBuilder::new(tensors, config)
InitBuild ==
    /\ given \in Builders
    /\ tensors = given.tensors
    /\ config = given.config
    /\ call = "ModelBuilder::new"
    /\ status = "Ok"
    /\ model = NoModel
    /\ src = <<>>
    /\ pos = 0
    /\ err = NoError
    /\ header = NoHeader
    /\ kv_index = 0
    /\ metadata_map = EmptyMap
    /\ tensor_index = 0
    /\ allocs = {}
    /\ build \in {"debug", "release"}
    /\ data_start = NoStart
    /\ arg = NoArg
    /\ ret = NoRet
    /\ open_alignment = W32(0)
    /\ earlier = NoEarlier
    /\ reserved = {}

\* builder.build()
Build ==
    /\ call = "ModelBuilder::new"
    /\ \E r \in {ModelBuilder_build(tensors, config)} :
          /\ status' = Result(r.ok)
          /\ err' = r.err
          /\ tensors' = r.tensors
          /\ model' = IF r.ok THEN r.val ELSE NoModel
    /\ call' = "ModelBuilder::build"
    /\ UNCHANGED <<src, pos, header, kv_index, metadata_map, tensor_index, allocs,
                   given, build, data_start, arg, ret, open_alignment, config,
                   earlier, reserved>>

Accessors ==
    {"Model::num_layers", "Model::vocab_size", "EmbeddingLayer::vocab_size",
     "EmbeddingLayer::embedding_dim"}

\* the caller holds a Model
Built == (call = "ModelBuilder::build" /\ status = "Ok") \/ call \in Accessors

\* what an accessor of the model returns: a panic for an index outside dims
Answers(name, r) ==
    /\ call' = name
    /\ status' = IF r.ok THEN "Ok" ELSE "Panic"
    /\ ret' = r.val
    /\ UNCHANGED <<src, pos, err, header, kv_index, metadata_map, tensor_index,
                   tensors, allocs, given, build, data_start, arg, open_alignment,
                   builderVars, earlier, reserved>>

NumLayers == Built /\ Answers("Model::num_layers", Model_num_layers(model))

ModelVocabSize == Built /\ Answers("Model::vocab_size", Model_vocab_size(model))

VocabSize ==
    Built /\ Answers("EmbeddingLayer::vocab_size",
                     EmbeddingLayer_vocab_size(model.embeddings))

EmbeddingDim ==
    Built /\ Answers("EmbeddingLayer::embedding_dim",
                     EmbeddingLayer_embedding_dim(model.embeddings))

NextBuild ==
    \/ Build
    \/ NumLayers
    \/ ModelVocabSize
    \/ VocabSize
    \/ EmbeddingDim

SpecBuild == InitBuild /\ [][NextBuild]_vars

(***************************************************************************)
(* What a mapping has to give a Model, by the names of the tensors.        *)
(***************************************************************************)
\* the mapping the builder was made from
Flat == given.tensors

\* the blocks to look at: all of them, or enough to get past every mapping
\* above when the block count is larger than any of them
BlocksAsked ==
    IF config.block_count[2] > 0 \/ config.block_count[1] > 12 THEN 12
    ELSE config.block_count[1]

\* ".attn_q.weight", ".attn_k.weight", ".attn_v.weight", ".attn_output.weight",
\* ".ffn_up.weight", ".ffn_down.weight"
RequiredOfBlock ==
    << <<46, 97, 116, 116, 110, 95, 113, 46, 119, 101, 105, 103, 104, 116>>,
       <<46, 97, 116, 116, 110, 95, 107, 46, 119, 101, 105, 103, 104, 116>>,
       <<46, 97, 116, 116, 110, 95, 118, 46, 119, 101, 105, 103, 104, 116>>,
       <<46, 97, 116, 116, 110, 95, 111, 117, 116, 112, 117, 116, 46, 119, 101, 105, 103, 104, 116>>,
       <<46, 102, 102, 110, 95, 117, 112, 46, 119, 101, 105, 103, 104, 116>>,
       <<46, 102, 102, 110, 95, 100, 111, 119, 110, 46, 119, 101, 105, 103, 104, 116>> >>

\* ".attn_q_norm.weight", ".attn_k_norm.weight", ".attn_norm.weight",
\* ".ffn_gate.weight", ".ffn_norm.weight"
OptionalOfBlock ==
    << <<46, 97, 116, 116, 110, 95, 113, 95, 110, 111, 114, 109, 46, 119, 101, 105, 103, 104, 116>>,
       <<46, 97, 116, 116, 110, 95, 107, 95, 110, 111, 114, 109, 46, 119, 101, 105, 103, 104, 116>>,
       <<46, 97, 116, 116, 110, 95, 110, 111, 114, 109, 46, 119, 101, 105, 103, 104, 116>>,
       <<46, 102, 102, 110, 95, 103, 97, 116, 101, 46, 119, 101, 105, 103, 104, 116>>,
       <<46, 102, 102, 110, 95, 110, 111, 114, 109, 46, 119, 101, 105, 103, 104, 116>> >>

\* "blk.<i>"
Blk(i) == <<98, 108, 107, 46>> \o Written(i)

\* the k-th required tensor: token_embd.weight, six of each block,
\* output.weight
RequiredName(k) ==
    IF k = 1 THEN <<116, 111, 107, 101, 110, 95, 101, 109, 98, 100, 46, 119, 101, 105, 103, 104, 116>>
    ELSE IF k = 2 + 6 * BlocksAsked THEN <<111, 117, 116, 112, 117, 116, 46, 119, 101, 105, 103, 104, 116>>
    ELSE Blk((k - 2) \div 6) \o RequiredOfBlock[((k - 2) % 6) + 1]

MissingRequired == {k \in 1..(2 + 6 * BlocksAsked) : RequiredName(k) \notin DOMAIN Flat}

FirstMissing == CHOOSE k \in MissingRequired : \A j \in MissingRequired : k <= j

\* "Required tensor '<name>' not found"
NamesTensor(name) ==
    <<82, 101, 113, 117, 105, 114, 101, 100, 32, 116, 101, 110, 115, 111, 114, 32, 39>> \o name \o <<39, 32, 110, 111, 116, 32, 102, 111, 117, 110, 100>>

\* the slots of a block with the names they are filled from
SlotsOfBlock(b) ==
    LET required == <<b.attention.query_weights, b.attention.key_weights,
                      b.attention.value_weights, b.attention.output_weights,
                      b.feed_forward.up_weights, b.feed_forward.down_weights>>
        optional == <<b.attention.query_norm, b.attention.key_norm,
                      b.attention.attention_norm, b.feed_forward.gate_weights,
                      b.feed_forward.ffn_norm>>
    IN  {<<Blk(b.layer_index) \o RequiredOfBlock[n], Some(required[n])>> : n \in 1..6}
        \cup {<<Blk(b.layer_index) \o OptionalOfBlock[n], optional[n]>> : n \in 1..5}

\* every slot of a Model with its name, an empty optional slot as None
SlotsOf(m) ==
    {<<<<116, 111, 107, 101, 110, 95, 101, 109, 98, 100, 46, 119, 101, 105, 103, 104, 116>>,
       Some(m.embeddings.token_embeddings)>>,
     <<<<111, 117, 116, 112, 117, 116, 46, 119, 101, 105, 103, 104, 116>>,
       Some(m.output_layer.output_weights)>>,
     <<<<111, 117, 116, 112, 117, 116, 95, 110, 111, 114, 109, 46, 119, 101, 105, 103, 104, 116>>,
       m.output_layer.output_norm>>}
    \cup UNION {SlotsOfBlock(m.transformer_blocks[j]) :
                    j \in 1..Len(m.transformer_blocks)}

\* C22: ModelBuilder::build fails exactly when a required tensor is missing
\* from the mapping, with an error naming the first missing one in the order
\* token_embd.weight, then for each block i below block_count
\* blk.<i>.attn_q.weight, attn_k, attn_v, attn_output, ffn_up, ffn_down, then
\* output.weight; a missing optional tensor leaves its slot empty and never
\* fails the build.
C22_FirstMissingRequiredTensor ==
    call = "ModelBuilder::build" =>
        IF MissingRequired = {}
        THEN /\ status = "Ok"
             /\ \A p \in SlotsOf(model) : p[1] \notin DOMAIN Flat => p[2] = None
        ELSE /\ status = "Err"
             /\ err = Error("GgufError::InvalidFormat",
                            NamesTensor(RequiredName(FirstMissing)))

\* two required tensors of the second block are missing: the error names
\* the first of them, blk.1.attn_v.weight
C22_Witness ==
    /\ call = "ModelBuilder::build"
    /\ status = "Err"
    /\ config.block_count = W32(2)
    /\ Blk(1) \o RequiredOfBlock[3] \notin DOMAIN Flat
    /\ Blk(1) \o RequiredOfBlock[6] \notin DOMAIN Flat
    /\ err.msg = NamesTensor(Blk(1) \o RequiredOfBlock[3])

\* C23: a successful build returns a Model with exactly block_count blocks
\* (none for 0), the block at position i has layer_index i and holds the
\* tensors stored under blk.<i>, and num_layers() is block_count.
C23_OneBlockPerLayer ==
    /\ (call = "ModelBuilder::build" /\ status = "Ok") =>
           /\ W32(Len(model.transformer_blocks)) = config.block_count
           /\ \A i \in 0..(Len(model.transformer_blocks) - 1) :
                  /\ model.transformer_blocks[i + 1].layer_index = i
                  /\ \A p \in SlotsOfBlock(model.transformer_blocks[i + 1]) :
                         /\ SubSeq(p[1], 1, Len(Blk(i)) + 1) = Blk(i) \o <<46>>
                         /\ p[2] = IF p[1] \in DOMAIN Flat THEN Some(Flat[p[1]]) ELSE None
    /\ call = "Model::num_layers" =>
           /\ status = "Ok"
           /\ <<ret[1], ret[2]>> = config.block_count
           /\ ret[3] = 0 /\ ret[4] = 0

\* eleven blocks, the last under blk.10
C23_Witness ==
    /\ call = "Model::num_layers"
    /\ ret = W64(11)
    /\ model.transformer_blocks[11].layer_index = 10
    /\ model.transformer_blocks[11].attention.query_weights.data
           = <<98, 108, 107, 46, 49, 48, 46, 97, 116, 116, 110, 95, 113, 46, 119, 101, 105, 103, 104, 116>>

\* C24: for a token-embedding tensor of dimensions [d0, d1] the embedding
\* layer's vocab_size() is d1 and its embedding_dim() is d0, and
\* Model::vocab_size() is d1.
C24_DimensionsVerbatim ==
    (/\ call \in {"EmbeddingLayer::vocab_size", "EmbeddingLayer::embedding_dim",
                  "Model::vocab_size"}
     /\ Len(model.embeddings.token_embeddings.info.dims) = 2) =>
        /\ status = "Ok"
        /\ ret = IF call = "EmbeddingLayer::embedding_dim"
                 THEN model.embeddings.token_embeddings.info.dims[1]
                 ELSE model.embeddings.token_embeddings.info.dims[2]

\* C28: during assembly a tensor is claimed by removing it from the
\* mapping: every filled slot of the Model holds the entry that was stored
\* under the slot's name, no entry is in two slots, the claimed entries are
\* gone from the mapping, and the entries of no slot (blk.<i> of
\* i >= block_count among them) are left in it as they were, with no error.
C28_ClaimedByRemoval ==
    (call = "ModelBuilder::build" /\ MissingRequired = {}) =>
        /\ status = "Ok"
        /\ \A p \in SlotsOf(model) :
               p[2].some => p[1] \in DOMAIN Flat /\ p[2].val = Flat[p[1]]
        /\ \A p, q \in SlotsOf(model) :
               (p[2].some /\ q[2].some /\ p[1] # q[1]) => p[2].val.data # q[2].val.data
        /\ DOMAIN tensors = DOMAIN Flat \ {p[1] : p \in SlotsOf(model)}
        /\ \A k \in DOMAIN tensors : tensors[k] = Flat[k]

\* a Model of one block built from a mapping that also holds
\* blk.1.attn_q.weight, "blk.00.attn_q.weight" and "x": these three are what
\* is left
C28_Witness ==
    /\ call = "ModelBuilder::build"
    /\ status = "Ok"
    /\ config.block_count = W32(1)
    /\ DOMAIN tensors = {Blk(1) \o RequiredOfBlock[1],
                         <<98, 108, 107, 46, 48, 48>> \o RequiredOfBlock[1],
                         <<120>>}
    /\ model.transformer_blocks[1].attention.query_norm.some

\* C25: is_version_supported() is true exactly when the version the header
\* was decoded from (bytes 4..7, little-endian) is 1, 2 or 3: false for 0 and
\* for every version of 4 or more.
C25_Versions1To3 ==
    call = "GgufHeader::is_version_supported" =>
        (ret <=> /\ src[5] \in {1, 2, 3}
                 /\ src[6] = 0 /\ src[7] = 0 /\ src[8] = 0)

\* true for the header of a version 3 file with no tensors and no metadata
C25_Witness ==
    /\ call = "GgufHeader::is_version_supported"
    /\ ret
    /\ SubSeq(src, 5, 8) = <<3, 0, 0, 0>>
    /\ header.n_tensors = W64(0)
    /\ header.n_kv = W64(0)

\* C27: while the metadata block is decoded the cursor never moves back and
\* nothing is sought: every iteration of the metadata loop, of read_metadata
\* and of GgmlFile::open alike, leaves the cursor at or after the position it
\* started from, whatever the lengths and counts in the file.
C27_CursorNeverMovesBack ==
    [][(ReadMetadataEntry \/ OpenMetadataEntry) => pos' >= pos]_vars

(***************************************************************************)
(* Decoding the same bytes twice: when the three calls have run to their   *)
(* end (the last one returned, or one of them failed), the caller keeps    *)
(* what they returned, opens a new cursor over the same bytes and makes    *)
(* the three calls again.  Everything the first calls left behind is still *)
(* there when the second ones start.                                       *)
(***************************************************************************)
GgufInputs == {g \in Inputs : g.layout = "gguf"}

InitTwice == Init /\ given \in GgufInputs

Decoders ==
    {"GgufHeader::parse", "GgufReader::read_metadata", "TensorLoader::read_tensor_info"}

\* the three calls are over
Decoded ==
    /\ call \in Decoders
    /\ \/ status = "Err"
       \/ call = "TensorLoader::read_tensor_info" /\ status = "Ok"

\* `Cursor::new(&bytes)` on the same buffer, the first results kept
DecodeAgain ==
    /\ Decoded
    /\ earlier = <<>>
    /\ earlier' = <<[call |-> call, status |-> status, err |-> err, header |-> header,
                     metadata |-> metadata_map, tensors |-> tensors, pos |-> pos]>>
    /\ pos' = 0
    /\ call' = "none"
    /\ status' = "none"
    /\ UNCHANGED <<src, err, header, kv_index, metadata_map, tensor_index, tensors,
                   allocs, given, build, data_start, arg, ret, open_alignment,
                   builderVars, reserved>>

NextTwice ==
    \/ Parse
    \/ ReadMetadataBegin
    \/ ReadMetadataEntry
    \/ ReadMetadataReturn
    \/ ReadTensorInfoBegin
    \/ ReadTensorInfoEntry
    \/ ReadTensorInfoReturn
    \/ DecodeAgain

SpecTwice == InitTwice /\ [][NextTwice]_vars

NextDecode ==
    \/ Parse
    \/ ReadMetadataBegin
    \/ ReadMetadataEntry
    \/ ReadMetadataReturn
    \/ ReadTensorInfoBegin
    \/ ReadTensorInfoEntry
    \/ ReadTensorInfoReturn

SpecDecode == InitTwice /\ [][NextDecode]_vars /\ WF_vars(NextDecode)

\* C29: every call of the three decoders comes to an end, returning its
\* result or an error, with the cursor within the bytes of the source,
\* whatever counts, lengths and array nestings the file declares.
C29_EveryCallReturns ==
    /\ [](call \in Decoders => status \in {"running", "Ok", "Err"} /\ pos <= Len(src))
    /\ \A c \in Decoders :
           (call = c) ~> (call = c /\ status \in {"Ok", "Err"})

\* C30: no request for room is made with a number the file declares and the
\* decoder has not checked: every buffer length and every capacity requested
\* is at most the number of bytes of the source, no call panics or aborts,
\* and a count larger than the source ends the call with a truncated-read
\* error.
C30_RequestsAreChecked ==
    call \in Decoders =>
        /\ \A n \in allocs \cup reserved : ~WLess(W64(Len(src)), n)
        /\ status \in {"running", "Ok", "Err"}
        /\ (given \in CountInputs /\ Decoded) =>
               /\ status = "Err"
               /\ "GgufError::Io" \in {err.kind, err.cause_kind}

====
